---- MODULE Spec2Model ----
(***************************************************************************)
(* A model of the session and transcoding core of hailuo-free-api.         *)
(*                                                                         *)
(*   SpecDevice  the device-identity cache of controllers/core.ts          *)
(*               (requestDeviceInfo, acquireDeviceInfo, getTokenLiveStatus)*)
(*   SpecCall    one completion call of controllers/chat.ts or audio.ts:   *)
(*               its attempts, its HTTP/2 session, the conversation the    *)
(*               upstream assigns and the deletion that follows            *)
(*   SpecStream  the two transcoders of controllers/chat.ts, receiveStream *)
(*               and createTransStream, fed the same upstream events       *)
(*   SpecParts   the multi-part createTransStream of the earlier chat       *)
(*               controller (parts of text, citation, image, code, output) *)
(*   SpecSpeech  concurrent createSpeech calls of controllers/audio.ts and  *)
(*               their per-credential voiceLock; SpecSpeechFair adds that   *)
(*               every request made is eventually answered                  *)
(*   SpecVoice   the voice table of the POST /v1/audio/speech route, as     *)
(*               the three versions of routes/audio.ts build and use it     *)
(*   SpecPrepare the message list of a completion call and the payload      *)
(*               messagesPrepare builds from it at every attempt            *)
(*   SpecDownload the concurrent segment downloads at the end of            *)
(*               createSpeech and the buffer built from them                *)
(*   SpecShared  the operations of SpecDevice and of SpecSpeech on the      *)
(*               state keyed by credential                                  *)
(*                                                                         *)
(* Node runs one callback at a time: an action is one callback together    *)
(* with the promise continuations it resumes, up to the next network wait. *)
(***************************************************************************)
EXTENDS Integers, Sequences, FiniteSets, TLC

\* ------------------------------------------------------------------ bounds
NProcs == 3            \* concurrent callers of the device-identity cache
MaxRegs == 2           \* registrations issued in one behaviour
MaxCalls == 3          \* calls started in one behaviour
MaxTicks == 2          \* clock advances in one behaviour
TickSeconds == 10800   \* seconds the clock advances by in one step
MaxLen == 2            \* longest cumulative text an event carries
MaxEvents == 3         \* server-sent events of one upstream response
NSpeakers == 2         \* concurrent createSpeech calls
PollMs == 15000        \* milliseconds one synthesis poll takes to answer
MaxOverrides == 3      \* longest list REPLACE_AUDIO_MODEL is set to
MaxMessages == 2       \* longest message list a completion call is given
MaxSegments == 3       \* most audio segments a synthesis returns

\* --------------------------------------------------------- program constants
DEVICE_INFO_EXPIRES == 10800
MAX_RETRY_COUNT == 3

Procs == 1..NProcs
Tokens == {"A", "B"}

VARIABLES
  \* controllers/core.ts, module state
  deviceInfoMap,               \* token -> cached value
  deviceInfoRequestQueueMap,   \* token -> Absent or the queue of resolvers
  \* the upstream and the clock
  registering,                 \* token -> registration requests in flight
  regId,                       \* token -> the uuid of its latest registration
  regIssued,                   \* registrations issued so far (the uuid source)
  calls,                       \* calls started so far
  now,                         \* util.unixTimestamp()
  \* the callers
  pc,                          \* proc -> position in its call
  op,                          \* proc -> "acquire" | "live"
  tok,                         \* proc -> the credential of its call
  ret,                         \* proc -> value returned or thrown
  thrown,                      \* proc -> whether the call ended by throwing
  att                          \* proc -> registration the call waited on (0: none)

deviceVars == <<deviceInfoMap, deviceInfoRequestQueueMap, registering, regId, regIssued, calls,
                now, pc, op, tok, ret, thrown, att>>


VARIABLES
  \* one completion call (controllers/chat.ts, controllers/audio.ts)
  fn,            \* the function called
  refConvId,     \* its refConvId argument
  hasFiles,      \* whether the latest message references files
  retryCount,    \* its retryCount argument in the current invocation
  attempts,      \* attempts started so far
  phase,         \* where the current invocation stands
  outcome,       \* how the call ended: result, error, attempt of the error
  succeededAt,   \* the attempt that succeeded (0: none)
  sessionsOpen,  \* HTTP/2 sessions opened and not closed
  dataId,        \* data.id of receiveStream / convId of createTransStream
  assigned,      \* conversation ids the upstream showed to the transcoder
  removal,       \* the removeConversation task: stage and conversation id
  deletes,       \* conversation ids a DELETE request was issued for
  caught,        \* the kinds of error the catch handlers of the call received
  requested,     \* calls of core.requestStream made by the call
  cachedReg,     \* deviceInfoMap of the call's token: the registration that
                 \* made the cached identity (0: no entry)
  regs,          \* registrations issued for the call's token
  usedReg,       \* the identity the current attempt got (0: none yet)
  rejected       \* the identity of the latest request the upstream
                 \* rejected, and the attempt that made it

deviceUse == <<cachedReg, regs, usedReg, rejected>>

VARIABLES
  settled,       \* attempt -> the promise of its receiveStream: "pending",
                 \* "rejected" or "resolved"
  streamsOpen,   \* attempts whose upstream stream has not emitted "close"
  lastCause      \* what the latest failing or exempt event of the current
                 \* attempt was ("none": no such event)

receiving == <<settled, streamsOpen, lastCause>>

callVars == <<fn, refConvId, hasFiles, retryCount, attempts, phase, outcome,
              succeededAt, sessionsOpen, dataId, assigned, removal, deletes,
              caught, requested, deviceUse, receiving>>

VARIABLES
  \* createTransStream (controllers/chat.ts)
  content,       \* the text accepted so far
  convId,        \* the conversation id of the chunks
  transStream,   \* the PassThrough returned to the caller
  endCallbacks,  \* calls of endCallback so far
  \* receiveStream (controllers/chat.ts)
  data,          \* the message under construction: id and content
  promise,       \* "pending" | "resolved" | "rejected"
  \* the upstream response
  upstream,      \* "open" | "errored" | "closed"
  nEvents,       \* events delivered so far
  last           \* what the latest parser callback of createTransStream did

streamVars == <<content, convId, transStream, endCallbacks, data, promise,
                upstream, nEvents, last>>

VARIABLES
  \* the multi-part createTransStream; its content, transStream and upstream
  \* are the variables of the same names above
  toolCall,             \* a citation or an image was the latest decoration
  codeGenerating,       \* a code fence is open
  textChunkLength,      \* length of the latest finished text value
  codeTemp,             \* the code sent so far
  lastExecutionOutput,  \* the latest execution output sent
  textOffset,           \* characters of content that are not model text
  prev,                 \* the event delivered before the current one
  repeat,               \* what the latest callback did, if its event was prev
  script                \* how far the events so far follow a known sequence

partsVars == <<toolCall, codeGenerating, textChunkLength, codeTemp,
               lastExecutionOutput, textOffset, prev, repeat, script>>

VARIABLES
  \* createSpeech (controllers/audio.ts)
  speechAt,      \* call -> the await it stands at
  speechToken,   \* call -> its token argument
  speechVoice,   \* call -> its voice, after the model mapping
  speechError,   \* call -> the error it threw ("none": none)
  waited,        \* call -> whether it had to queue for the lock
  elapsed,       \* call -> Date.now() - startTime of its poll loop
  audioUrls,     \* call -> number of segment URLs the poll returned
  voiceLock,     \* token -> the holder of the lock and the queue behind it
  robotVoiceID   \* token -> the persona the upstream holds for the account

speechVars == <<speechAt, speechToken, speechVoice, speechError, waited, elapsed,
                audioUrls, voiceLock, robotVoiceID>>

\* The route of POST /v1/audio/speech (routes/audio.ts)
VARIABLES
  route,                \* the version of the route module loaded, or "none"
  replaceEnv,           \* the environment's REPLACE_AUDIO_MODEL at load
  REPLACE_AUDIO_MODEL,  \* the table the module computed at load
  bodyVoice,            \* body.voice of the latest request
  voice,                \* the voice the latest request gave createSpeech
  bodyModel,            \* body.model of the latest request
  persona               \* the voice createSpeech asked the upstream for

voiceVars == <<route, replaceEnv, REPLACE_AUDIO_MODEL, bodyVoice, voice,
               bodyModel, persona>>

\* The message list of one completion call (chat.ts messagesPrepare)
VARIABLES
  messages,    \* the caller's array, which every attempt is handed
  given,       \* the list and the reference the call was made with
  payloads,    \* the payload each attempt has built, in order
  preparing    \* an attempt is still to be made

prepareVars == <<messages, given, payloads, preparing>>

\* The segment downloads of one createSpeech call (audio.ts:85-108)
VARIABLES
  segments,         \* audioUrls.length, -1 before the poll has returned
  downloadResults,  \* segment -> its response, in the order of audioUrls
  arrived,          \* the segments in the order their requests settled
  audioBuffer,      \* the bodies concatenated so far
  speechResult      \* pending, audio, or the error createSpeech threw

downloadVars == <<segments, downloadResults, arrived, audioBuffer, speechResult>>

vars == <<deviceVars, callVars, streamVars, partsVars, speechVars, voiceVars,
          prepareVars, downloadVars>>

\* What the actions of one component leave alone
otherThanDevice == <<callVars, streamVars, partsVars, speechVars, voiceVars,
                    prepareVars, downloadVars>>
otherThanCall == <<deviceVars, streamVars, partsVars, speechVars, voiceVars,
                    prepareVars, downloadVars>>
otherThanStream == <<deviceVars, callVars, partsVars, speechVars, voiceVars,
                    prepareVars, downloadVars>>
otherThanParts ==
  <<deviceVars, callVars, convId, data, promise, last, speechVars, voiceVars,
    prepareVars, downloadVars>>
otherThanSpeech == <<deviceVars, callVars, streamVars, partsVars, voiceVars,
                    prepareVars, downloadVars>>
otherThanPrepare ==
  <<deviceVars, callVars, streamVars, partsVars, speechVars, voiceVars,
    downloadVars>>
otherThanDownload ==
  <<deviceVars, callVars, streamVars, partsVars, speechVars, voiceVars,
    prepareVars>>
otherThanVoice == <<deviceVars, callVars, streamVars, partsVars, speechVars,
                    prepareVars, downloadVars>>

\* ------------------------------------------------------------------ values
\* 0 is no caller: the queue property is missing
Absent == <<0>>
NoValue == [kind |-> "none", reg |-> 0, refreshTime |-> 0]
\* the object built at core.ts:84-88
Identity(r, t) == [kind |-> "id", reg |-> r, refreshTime |-> t + DEVICE_INFO_EXPIRES]
\* an Error object: it has no refreshTime property
ErrorOf(r) == [kind |-> "err", reg |-> r, refreshTime |-> 0]
BoolValue(b) == [kind |-> IF b THEN "true" ELSE "false", reg |-> 0, refreshTime |-> 0]

\* JavaScript truthiness of a cached value: only the missing entry is falsy
Truthy(v) == v.kind # "none"
\* util.unixTimestamp() > result.refreshTime; a comparison with undefined is false
ExpiredNever(v, t) == FALSE
Expired(v, t) == v.kind = "id" /\ t > v.refreshTime

\* ------------------------------------------------------------ core.ts model
DeviceInit ==
  /\ deviceInfoMap = [t \in Tokens |-> NoValue]
  /\ deviceInfoRequestQueueMap = [t \in Tokens |-> Absent]
  /\ registering = [t \in Tokens |-> 0]
  /\ regId = [t \in Tokens |-> 0]
  /\ regIssued = 0
  /\ calls = 0
  /\ now = 0
  /\ pc = [p \in Procs |-> "idle"]
  /\ op = [p \in Procs |-> "acquire"]
  /\ tok = [p \in Procs |-> "A"]
  /\ ret = [p \in Procs |-> NoValue]
  /\ thrown = [p \in Procs |-> FALSE]
  /\ att = [p \in Procs |-> 0]

\* Call slots are interchangeable: a call takes the lowest free slot, and the
\* outcomes of ended calls are taken before anything else happens
FreeSlot(p) ==
  /\ pc[p] = "idle"
  /\ \A q \in Procs : q < p => pc[q] # "idle"
NoneDone == \A p \in Procs : pc[p] # "done"

\* A call that never joins the queue: every caller registers for itself
CoalescesNever(t) == FALSE

\* Whether a call for token t joins the queue of the registration in flight
Coalesces(t) == deviceInfoRequestQueueMap[t] # Absent

\* requestDeviceInfo up to its first wait (core.ts:64-82): join the queue of the
\* registration in flight, or create the queue and issue the registration.
\* stage is the line of acquireDeviceInfo that awaits it.
requestDeviceInfo(p, t, stage) ==
  IF Coalesces(t)
  THEN /\ deviceInfoRequestQueueMap' =
            [deviceInfoRequestQueueMap EXCEPT ![t] = Append(@, p)]
       /\ pc' = [pc EXCEPT ![p] = IF stage = 1 THEN "queued1" ELSE "queued2"]
       /\ att' = [att EXCEPT ![p] = regId[t]]
       /\ UNCHANGED <<registering, regId, regIssued>>
  ELSE /\ regIssued < MaxRegs
       /\ deviceInfoRequestQueueMap' =
            [deviceInfoRequestQueueMap EXCEPT ![t] = <<>>]
       /\ registering' = [registering EXCEPT ![t] = @ + 1]
       /\ regIssued' = regIssued + 1
       /\ regId' = [regId EXCEPT ![t] = regIssued + 1]
       /\ pc' = [pc EXCEPT ![p] = IF stage = 1 THEN "issuer1" ELSE "issuer2"]
       /\ att' = [att EXCEPT ![p] = regIssued + 1]

\* acquireDeviceInfo from its call to its first wait or its return (core.ts:116-127)
acquireDeviceInfo(p, t) ==
  LET result == deviceInfoMap[t] IN
  IF ~Truthy(result)
  THEN requestDeviceInfo(p, t, 1) /\ UNCHANGED <<ret, thrown>>
  ELSE IF Expired(result, now)
  THEN requestDeviceInfo(p, t, 2) /\ UNCHANGED <<ret, thrown>>
  ELSE /\ pc' = [pc EXCEPT ![p] = IF op'[p] = "live" THEN "liveRequest" ELSE "done"]
       /\ ret' = [ret EXCEPT ![p] = result]
       /\ thrown' = [thrown EXCEPT ![p] = FALSE]
       /\ att' = [att EXCEPT ![p] = 0]
       /\ UNCHANGED <<deviceInfoRequestQueueMap, registering, regId, regIssued>>

\* A caller starts acquireDeviceInfo(t)
CallAcquire(p, t) ==
  /\ FreeSlot(p)
  /\ NoneDone
  /\ calls < MaxCalls
  /\ calls' = calls + 1
  /\ op' = [op EXCEPT ![p] = "acquire"]
  /\ tok' = [tok EXCEPT ![p] = t]
  /\ acquireDeviceInfo(p, t)
  /\ UNCHANGED <<deviceInfoMap, now>>
  /\ UNCHANGED otherThanDevice

\* A caller starts getTokenLiveStatus(t) (core.ts:417-418)
CallLive(p, t) ==
  /\ FreeSlot(p)
  /\ NoneDone
  /\ calls < MaxCalls
  /\ calls' = calls + 1
  /\ op' = [op EXCEPT ![p] = "live"]
  /\ tok' = [tok EXCEPT ![p] = t]
  /\ acquireDeviceInfo(p, t)
  /\ UNCHANGED <<deviceInfoMap, now>>
  /\ UNCHANGED otherThanDevice

\* The value each queued resolver is called with when the registration fails
\* (core.ts:99-102)
QueuedOnFailure(err) == err

\* Whether the call of p, resumed with value v, throws (core.ts:105 for the
\* issuer; a queued call is resumed by resolve(v) and has no throw)
Throws(p, v) == pc[p] \in {"issuer1", "issuer2"} /\ v.kind = "err"

\* The registration of token t settles, with success or failure (core.ts:83-106),
\* and every call that awaited it runs on to its return (core.ts:119-126)
SettleRegistration(t, ok) ==
  LET queue == deviceInfoRequestQueueMap[t]
      waiters == {queue[i] : i \in 1..Len(queue)}
      issuers == {p \in Procs : pc[p] \in {"issuer1", "issuer2"} /\ tok[p] = t}
      value == IF ok THEN Identity(regId[t], now) ELSE ErrorOf(regId[t])
      got(p) == IF p \in waiters /\ ~ok THEN QueuedOnFailure(value) ELSE value
      resumed == waiters \cup issuers
      setters == {p \in resumed : ~Throws(p, got(p))}
  IN
  /\ NoneDone
  /\ registering[t] > 0
  /\ issuers # {}
  /\ registering' = [registering EXCEPT ![t] = @ - 1]
  /\ deviceInfoRequestQueueMap' = [deviceInfoRequestQueueMap EXCEPT ![t] = Absent]
  \* deviceInfoMap.set(token, result) by every call that did not throw
  /\ deviceInfoMap' =
       IF setters = {} THEN deviceInfoMap
       ELSE [deviceInfoMap EXCEPT ![t] = got(CHOOSE p \in setters : TRUE)]
  /\ ret' = [p \in Procs |-> IF p \in resumed THEN got(p) ELSE ret[p]]
  /\ thrown' = [p \in Procs |-> IF p \in resumed THEN Throws(p, got(p)) ELSE thrown[p]]
  /\ pc' = [p \in Procs |->
             IF p \notin resumed THEN pc[p]
             ELSE IF op[p] = "live" /\ ~Throws(p, got(p)) THEN "liveRequest"
             ELSE "done"]
  /\ UNCHANGED <<regId, regIssued, calls, now, op, tok, att>>
  /\ UNCHANGED otherThanDevice

\* deviceInfoMap.delete(token) (core.ts:430)
Cleared(map, t) == [k \in DOMAIN map |-> NoValue]
Deleted(map, t) == [map EXCEPT ![t] = NoValue]

\* GET /v1/api/user/info answers; a rejection evicts the entry (core.ts:419-432)
SettleLive(p, accepted) ==
  /\ NoneDone
  /\ pc[p] = "liveRequest"
  /\ deviceInfoMap' = IF accepted THEN deviceInfoMap
                      ELSE Deleted(deviceInfoMap, tok[p])
  /\ ret' = [ret EXCEPT ![p] = BoolValue(accepted)]
  /\ pc' = [pc EXCEPT ![p] = "done"]
  /\ UNCHANGED <<deviceInfoRequestQueueMap, registering, regId, regIssued, calls,
                 now, op, tok, thrown, att>>
  /\ UNCHANGED otherThanDevice

\* The callers take the outcomes; their slots are free for later calls
Finish ==
  /\ \E p \in Procs : pc[p] = "done"
  /\ pc' = [p \in Procs |-> IF pc[p] = "done" THEN "idle" ELSE pc[p]]
  /\ op' = [p \in Procs |-> IF pc[p] = "done" THEN "acquire" ELSE op[p]]
  /\ tok' = [p \in Procs |-> IF pc[p] = "done" THEN "A" ELSE tok[p]]
  /\ ret' = [p \in Procs |-> IF pc[p] = "done" THEN NoValue ELSE ret[p]]
  /\ thrown' = [p \in Procs |-> IF pc[p] = "done" THEN FALSE ELSE thrown[p]]
  /\ att' = [p \in Procs |-> IF pc[p] = "done" THEN 0 ELSE att[p]]
  /\ UNCHANGED <<deviceInfoMap, deviceInfoRequestQueueMap, registering, regId, regIssued, calls,
                 now>>
  /\ UNCHANGED otherThanDevice

\* Time passes
Tick ==
  /\ NoneDone
  /\ now < MaxTicks * TickSeconds
  /\ now' = now + TickSeconds
  /\ UNCHANGED <<deviceInfoMap, deviceInfoRequestQueueMap, registering, regId, regIssued, calls,
                 pc, op, tok, ret, thrown, att>>
  /\ UNCHANGED otherThanDevice

DeviceNext ==
  \/ \E p \in Procs, t \in Tokens : CallAcquire(p, t)
  \/ \E p \in Procs, t \in Tokens : CallLive(p, t)
  \/ \E t \in Tokens, ok \in BOOLEAN : SettleRegistration(t, ok)
  \/ \E p \in Procs, accepted \in BOOLEAN : SettleLive(p, accepted)
  \/ Finish
  \/ Tick

\* ----------------------------------------------- chat.ts / audio.ts model
\* Conversation ids: none (""), a malformed reference, the referenced thread,
\* and the conversation the upstream creates for attempt k
NoConv == <<"conv", -1>>
BadRef == <<"conv", -2>>
Ref == <<"conv", 0>>
ConvOf(k) == <<"conv", k>>

ChatFns == {"createCompletion", "createCompletionStream"}
Fns == ChatFns \cup {"createRepeatCompletion", "createTranscriptions"}

NoOutcome == [result |-> "none", error |-> "none", attempt |-> 0]
NoRemoval == [stage |-> "none", id |-> NoConv]

NoRejection == [reg |-> 0, attempt |-> 0]

\* The attempts a call can make
Attempts == 1..(1 + MAX_RETRY_COUNT)

\* resolve and reject of a promise: only the first one settles it
SettleLast(state, how) == how
SettleOnce(state, how) == IF state = "pending" THEN how ELSE state

\* What makes the parser callback throw or the stream fail: data that is not
\* JSON, a statusInfo.code other than 0 on an event whose type is not 3
\* (chat.ts:421-427, 500-506), the "error" event of the stream (chat.ts:458, 565)
Causes == {"malformed", "status", "error"}

CallInit ==
  /\ fn = "createCompletion"
  /\ refConvId = NoConv
  /\ hasFiles = FALSE
  /\ retryCount = 0
  /\ attempts = 0
  /\ phase = "idle"
  /\ outcome = NoOutcome
  /\ succeededAt = 0
  /\ sessionsOpen = 0
  /\ dataId = NoConv
  /\ assigned = {}
  /\ removal = NoRemoval
  /\ deletes = {}
  /\ caught = {}
  /\ requested = 0
  /\ cachedReg = 0
  /\ regs = 0
  /\ usedReg = 0
  /\ rejected = NoRejection
  /\ settled = [k \in Attempts |-> "pending"]
  /\ streamsOpen = {}
  /\ lastCause = "none"

\* if (!/[0-9]{18}/.test(refConvId)) refConvId = "" (chat.ts:67, 152)
ResetRef(ref) == IF ref = BadRef THEN NoConv ELSE ref

\* chatID of the events of the current attempt: the referenced thread, or the
\* conversation the upstream opened for chatID "0" (chat.ts:371)
ChatID == IF refConvId = Ref THEN Ref ELSE ConvOf(attempts)

\* The test of the catch handler that decides on another attempt
\* (chat.ts:106, 187, 253; audio.ts:155)
MayRetry(rc) == rc < MAX_RETRY_COUNT

\* The body of an invocation up to its first wait (chat.ts:55-70, 140-155,
\* 220-222; audio.ts:117-119)
Invoke(f, ref, files) ==
  IF f = "createTranscriptions"
  THEN /\ phase' = "transcode"
       /\ UNCHANGED <<attempts, refConvId>>
  ELSE /\ attempts' = attempts + 1
       /\ phase' = IF f \in ChatFns /\ files THEN "upload" ELSE "acquire"
       /\ refConvId' = IF f \in ChatFns /\ ~files THEN ResetRef(ref) ELSE ref

\* A caller calls one of the completion functions; an earlier call may have
\* left an identity of the token in the cache
StartCall(f, ref, files, warm) ==
  /\ phase = "idle"
  /\ f \in ChatFns \/ (ref = NoConv /\ ~files)
  /\ cachedReg' = IF warm THEN 1 ELSE 0
  /\ regs' = IF warm THEN 1 ELSE 0
  /\ UNCHANGED <<usedReg, rejected>>
  /\ UNCHANGED receiving
  /\ fn' = f
  /\ hasFiles' = files
  /\ retryCount' = 0
  /\ Invoke(f, ref, files)
  /\ UNCHANGED <<outcome, succeededAt, sessionsOpen, dataId, assigned, removal, deletes,
                 caught, requested>>
  /\ UNCHANGED otherThanCall

\* session && session.close() of the catch handler: session is the one the
\* invocation opened, if it opened one (chat.ts:104, 185, 251; audio.ts:153)
KeepSession(open) == open
CloseSession(open) == 0

\* The catch handler of an attempt (chat.ts:103-121, 184-202, 250-262;
\* audio.ts:152-164): close the session, then wait for the retry or rethrow
Catch(kind) ==
  /\ sessionsOpen' = CloseSession(sessionsOpen)
  /\ caught' = caught \cup {kind}
  /\ IF MayRetry(retryCount)
     THEN /\ phase' = "delay"
          /\ outcome' = [result |-> "none", error |-> kind, attempt |-> attempts]
     ELSE /\ phase' = "failed"
          /\ outcome' = [result |-> "error", error |-> kind, attempt |-> attempts]

\* RETRY_DELAY has passed: the function calls itself with retryCount + 1
RetryAfterDelay ==
  /\ phase = "delay"
  /\ retryCount' = retryCount + 1
  /\ dataId' = NoConv
  /\ Invoke(fn, refConvId, hasFiles)
  /\ usedReg' = 0
  /\ UNCHANGED <<cachedReg, regs, rejected>>
  /\ lastCause' = "none"
  /\ UNCHANGED <<settled, streamsOpen>>
  /\ UNCHANGED <<fn, hasFiles, outcome, succeededAt, sessionsOpen, assigned,
                 removal, deletes, caught, requested>>
  /\ UNCHANGED otherThanCall

\* util.transAudioCode and fs.readFile of createTranscriptions
\* (audio.ts:117-122), which run before the attempt and outside its catch
Transcode(ok) ==
  /\ phase = "transcode"
  /\ IF ok
     THEN /\ attempts' = attempts + 1
          /\ phase' = "acquire"
          /\ UNCHANGED outcome
     ELSE /\ phase' = "failed"
          /\ outcome' = [result |-> "error", error |-> "transcode", attempt |-> 0]
          /\ UNCHANGED attempts
  /\ UNCHANGED <<fn, refConvId, hasFiles, retryCount, succeededAt, sessionsOpen,
                 dataId, assigned, removal, deletes, caught, requested>>
  /\ UNCHANGED receiving
  /\ UNCHANGED deviceUse
  /\ UNCHANGED otherThanCall

\* Promise.all of core.uploadFile over the referenced files (chat.ts:59-67)
UploadRefs(ok) ==
  /\ phase = "upload"
  /\ IF ok
     THEN /\ phase' = "acquire"
          /\ refConvId' = ResetRef(refConvId)
          /\ UNCHANGED <<outcome, sessionsOpen, caught>>
     ELSE Catch("file") /\ UNCHANGED refConvId
  /\ UNCHANGED <<fn, hasFiles, retryCount, attempts, succeededAt, dataId, assigned,
                 removal, deletes, requested>>
  /\ UNCHANGED receiving
  /\ UNCHANGED deviceUse
  /\ UNCHANGED otherThanCall

\* Whether the catch handler of a completion call removes the token's entry
\* from deviceInfoMap: none does (chat.ts:103-121, 184-202, 250-262;
\* audio.ts:152-164)
Evicts == FALSE

\* core.acquireDeviceInfo of the attempt (chat.ts:70, 155, 222; audio.ts:126):
\* a hit returns the cached identity (core.ts:117-126); otherwise, on a miss
\* or an expired entry, a registration is issued and its identity cached
AcquireDevice(hit, ok) ==
  /\ phase = "acquire"
  /\ hit => (cachedReg # 0 /\ ok)
  /\ ~hit => regs < 1 + MAX_RETRY_COUNT
  /\ regs' = IF hit THEN regs ELSE regs + 1
  /\ cachedReg' = IF hit \/ ~ok THEN cachedReg ELSE regs + 1
  /\ usedReg' = IF hit THEN cachedReg ELSE IF ok THEN regs + 1 ELSE 0
  /\ UNCHANGED rejected
  /\ UNCHANGED receiving
  /\ IF ok
     THEN phase' = "open" /\ UNCHANGED <<outcome, sessionsOpen, caught>>
     ELSE Catch("device")
  /\ UNCHANGED <<fn, refConvId, hasFiles, retryCount, attempts, succeededAt, dataId,
                 assigned, removal, deletes, requested>>
  /\ UNCHANGED otherThanCall

\* core.requestStream (chat.ts:73-87, 157-171, 224-241; audio.ts:128-145); in
\* createCompletionStream the attempt ends here, returning the output stream
\* of createTransStream (chat.ts:175-183)
OpenStream(ok) ==
  /\ phase = "open"
  /\ requested' = requested + 1
  /\ streamsOpen' = IF ok THEN streamsOpen \cup {attempts} ELSE streamsOpen
  /\ UNCHANGED <<settled, lastCause>>
  /\ IF ~ok
     THEN Catch("transport") /\ UNCHANGED succeededAt
     ELSE /\ sessionsOpen' = sessionsOpen + 1
          /\ UNCHANGED caught
          /\ IF fn = "createCompletionStream"
             THEN /\ phase' = "streaming"
                  /\ outcome' = [result |-> "ok", error |-> "none", attempt |-> attempts]
                  /\ succeededAt' = attempts
             ELSE /\ phase' = "receive"
                  /\ UNCHANGED <<outcome, succeededAt>>
  /\ UNCHANGED <<fn, refConvId, hasFiles, retryCount, attempts, dataId, assigned,
                 removal, deletes>>
  /\ UNCHANGED deviceUse
  /\ UNCHANGED otherThanCall

\* removeConversation(id, token) is called and not awaited (chat.ts:98, 180)
StartRemoval(id) == [stage |-> "acquire", id |-> id]

\* What the end of a turn does about the conversation id (chat.ts:97-100,
\* 179-183): the deletion is started whatever refConvId is; refConvId only
\* decides whether a failure of the deletion is logged
ScheduleRemoval(id) == StartRemoval(id)

\* A message_result event reaches the transcoder (chat.ts:429-433, 508-511)
StreamMessage ==
  /\ phase \in {"receive", "streaming"}
  /\ fn \in ChatFns \cup {"createRepeatCompletion"}
  /\ dataId' = IF dataId = NoConv THEN ChatID ELSE dataId
  /\ assigned' = assigned \cup {ChatID}
  /\ UNCHANGED <<fn, refConvId, hasFiles, retryCount, attempts, phase, outcome,
                 succeededAt, sessionsOpen, removal, deletes, caught, requested>>
  /\ UNCHANGED receiving
  /\ UNCHANGED deviceUse
  /\ UNCHANGED otherThanCall

\* An event that makes the parser callback throw: malformed JSON or a status
\* code other than 0; or the upstream stream emits "error".  receiveStream
\* rejects (chat.ts:421-427, 451-454, 458; audio.ts:179-189, 201-208);
\* createTransStream ends its output (chat.ts:539-568)
StreamFails(cause) ==
  /\ phase \in {"receive", "streaming"}
  /\ rejected' = [reg |-> usedReg, attempt |-> attempts]
  /\ cachedReg' = IF Evicts /\ phase = "receive" THEN 0 ELSE cachedReg
  /\ UNCHANGED <<regs, usedReg>>
  /\ lastCause' = cause
  /\ settled' = IF phase = "receive"
                THEN [settled EXCEPT ![attempts] = SettleOnce(@, "rejected")]
                ELSE settled
  /\ UNCHANGED streamsOpen
  /\ IF phase = "receive"
     THEN Catch("stream")
     ELSE UNCHANGED <<phase, outcome, sessionsOpen, caught>>
  /\ UNCHANGED <<fn, refConvId, hasFiles, retryCount, attempts, succeededAt, dataId,
                 assigned, removal, deletes, requested>>
  /\ UNCHANGED otherThanCall

\* The message_result event with isEnd = 0 reaches createTransStream: it ends
\* the output and calls endCallback(chatID) (chat.ts:534-537, 175-183)
StreamEndEvent ==
  /\ phase = "streaming"
  /\ dataId' = IF dataId = NoConv THEN ChatID ELSE dataId
  /\ assigned' = assigned \cup {ChatID}
  /\ removal' = ScheduleRemoval(ChatID)
  /\ UNCHANGED <<fn, refConvId, hasFiles, retryCount, attempts, phase, outcome,
                 succeededAt, sessionsOpen, deletes, caught, requested>>
  /\ UNCHANGED receiving
  /\ UNCHANGED deviceUse
  /\ UNCHANGED otherThanCall

\* The upstream stream emits "close".  receiveStream resolves and the attempt
\* succeeds (chat.ts:459, 91-102, 244-249; audio.ts:209, 148-151);
\* createTransStream ends its output (chat.ts:569-572)
StreamClose ==
  /\ phase \in {"receive", "streaming"}
  /\ streamsOpen' = streamsOpen \ {attempts}
  /\ settled' = IF phase = "receive"
                THEN [settled EXCEPT ![attempts] = SettleOnce(@, "resolved")]
                ELSE settled
  /\ UNCHANGED lastCause
  /\ IF phase = "receive"
     THEN /\ phase' = "returned"
          /\ sessionsOpen' = sessionsOpen - 1
          /\ outcome' = [result |-> "ok", error |-> "none", attempt |-> attempts]
          /\ succeededAt' = attempts
          /\ removal' = IF fn = "createCompletion" THEN ScheduleRemoval(dataId)
                        ELSE removal
     ELSE /\ phase' = "closed"
          /\ UNCHANGED <<sessionsOpen, outcome, succeededAt, removal>>
  /\ UNCHANGED <<fn, refConvId, hasFiles, retryCount, attempts, dataId, assigned,
                 deletes, caught, requested>>
  /\ UNCHANGED deviceUse
  /\ UNCHANGED otherThanCall

\* An event with a statusInfo.code other than 0 and type 3 reaches the parser
\* callback of chat.ts: the test code !== 0 && type != 3 lets it pass
\* (chat.ts:426, 505)
StreamExempt ==
  /\ phase \in {"receive", "streaming"}
  /\ fn \in ChatFns \cup {"createRepeatCompletion"}
  /\ lastCause # "status3"
  /\ lastCause' = "status3"
  /\ UNCHANGED <<settled, streamsOpen>>
  /\ UNCHANGED <<fn, refConvId, hasFiles, retryCount, attempts, phase, outcome,
                 succeededAt, sessionsOpen, dataId, assigned, removal, deletes,
                 caught, requested>>
  /\ UNCHANGED deviceUse
  /\ UNCHANGED otherThanCall

\* The upstream stream of an attempt that has failed emits "close", after
\* its "error" or after the catch handler closed its session: resolve(data)
\* is called on the promise of that attempt (chat.ts:459)
LateClose(k) ==
  /\ k \in streamsOpen
  /\ k < attempts \/ phase \in {"delay", "failed"}
  /\ fn # "createCompletionStream"
  /\ streamsOpen' = streamsOpen \ {k}
  /\ settled' = [settled EXCEPT ![k] = SettleOnce(@, "resolved")]
  /\ UNCHANGED lastCause
  /\ UNCHANGED <<fn, refConvId, hasFiles, retryCount, attempts, phase, outcome,
                 succeededAt, sessionsOpen, dataId, assigned, removal, deletes,
                 caught, requested>>
  /\ UNCHANGED deviceUse
  /\ UNCHANGED otherThanCall

\* What the settling of removeConversation does to the outcome of the call:
\* its promise is not awaited and its rejection is taken by its own .catch
\* (chat.ts:98-100, 180-182)
AwaitedRemoval(ok, out) ==
  IF ok THEN out ELSE [result |-> "error", error |-> "removal", attempt |-> out.attempt]
AfterRemoval(ok, out) == out

\* removeConversation: core.acquireDeviceInfo, then the DELETE request is
\* issued (chat.ts:27-34)
RemovalAcquire(ok) ==
  /\ removal.stage = "acquire"
  /\ removal' = [removal EXCEPT !.stage = IF ok THEN "delete" ELSE "failed"]
  /\ deletes' = IF ok THEN deletes \cup {removal.id} ELSE deletes
  /\ outcome' = AfterRemoval(ok, outcome)
  /\ UNCHANGED <<fn, refConvId, hasFiles, retryCount, attempts, phase,
                 succeededAt, sessionsOpen, dataId, assigned, caught, requested>>
  /\ UNCHANGED receiving
  /\ UNCHANGED deviceUse
  /\ UNCHANGED otherThanCall

\* removeConversation: the DELETE request answers (chat.ts:35, 98-100)
RemovalSettle(ok) ==
  /\ removal.stage = "delete"
  /\ removal' = [removal EXCEPT !.stage = IF ok THEN "done" ELSE "failed"]
  /\ outcome' = AfterRemoval(ok, outcome)
  /\ UNCHANGED <<fn, refConvId, hasFiles, retryCount, attempts, phase,
                 succeededAt, sessionsOpen, dataId, assigned, deletes, caught,
                 requested>>
  /\ UNCHANGED receiving
  /\ UNCHANGED deviceUse
  /\ UNCHANGED otherThanCall

CallNext ==
  \/ \E f \in Fns, ref \in {NoConv, BadRef, Ref}, files, warm \in BOOLEAN :
       StartCall(f, ref, files, warm)
  \/ RetryAfterDelay
  \/ \E ok \in BOOLEAN : Transcode(ok)
  \/ \E ok \in BOOLEAN : UploadRefs(ok)
  \/ \E hit, ok \in BOOLEAN : AcquireDevice(hit, ok)
  \/ \E ok \in BOOLEAN : OpenStream(ok)
  \/ StreamMessage
  \/ \E cause \in Causes : StreamFails(cause)
  \/ StreamExempt
  \/ \E k \in Attempts : LateClose(k)
  \/ StreamEndEvent
  \/ StreamClose
  \/ \E ok \in BOOLEAN : RemovalAcquire(ok)
  \/ \E ok \in BOOLEAN : RemovalSettle(ok)

\* -------------------------------------------- chat.ts stream transcoders
\* Strings are sequences of characters; Marker stands for U+FFFD, which the
\* upstream sends in place of a character it has not finished encoding
Marker == "X"
Chars == {"a", "b", Marker}
Texts == UNION {[1..n -> Chars] : n \in 0..MaxLen}
\* messageResult.chatID of the events of one response
EventChatID == "chat"
\* err.message as the catch branch writes it (chat.ts:551)
ErrorMessage == <<"!">>

Min(a, b) == IF a < b THEN a ELSE b
Max(a, b) == IF a < b THEN b ELSE a
IsPrefix(a, b) == Len(a) <= Len(b) /\ SubSeq(b, 1, Len(a)) = a

\* String.prototype.indexOf: zero-based, -1 when absent
IndexOf(s, c) ==
  IF \E i \in 1..Len(s) : s[i] = c
  THEN (CHOOSE i \in 1..Len(s) : s[i] = c /\ \A j \in 1..(i - 1) : s[j] # c) - 1
  ELSE -1

\* String.prototype.substring: both indexes are clamped to [0, length] and
\* swapped when the first exceeds the second
Clamp(i, n) == IF i < 0 THEN 0 ELSE IF i > n THEN n ELSE i
Substring(s, from, to) ==
  LET a == Clamp(from, Len(s))
      b == Clamp(to, Len(s))
  IN SubSeq(s, Min(a, b) + 1, Max(a, b))

\* The arguments of text.substring (chat.ts:436-444, 513-518)
ChunkStart(acc, text) ==
  LET exceptCharIndex == IndexOf(text, Marker)
  IN IF exceptCharIndex # -1 THEN Min(Len(acc), exceptCharIndex) ELSE Len(acc)
ChunkEndWhole(text) == Len(text)
ChunkEnd(text) ==
  LET exceptCharIndex == IndexOf(text, Marker)
  IN IF exceptCharIndex = -1 THEN Len(text) ELSE exceptCharIndex
Chunk(acc, text) == Substring(text, ChunkStart(acc, text), ChunkEnd(text))

\* A PassThrough: the concatenation of the delta contents written to it, the
\* number of chunks, the finish_reason of the latest, the [DONE] sentinels
\* written, and the writes and ends attempted after it was ended.  closed is
\* true only once "close" has been emitted, which end() does not do by itself
NewPassThrough ==
  [state |-> "open", written |-> <<>>, chunks |-> 0, lastFinish |-> "none",
   done |-> 0, lateWrites |-> 0, lateEnds |-> 0]

\* !transStream.closed && transStream.write(chunk)
Write(o, delta, finish) ==
  IF o.state = "closed" THEN o
  ELSE IF o.state = "ended" THEN [o EXCEPT !.lateWrites = @ + 1]
  ELSE [o EXCEPT !.written = @ \o delta, !.chunks = @ + 1, !.lastFinish = finish]

\* !transStream.closed && transStream.end(sentinel); sentinels is 1 for
\* "data: [DONE]\n\n" and 0 for other text
End(o, sentinels) ==
  IF o.state = "closed" THEN o
  ELSE IF o.state = "ended" THEN [o EXCEPT !.lateEnds = @ + 1]
  ELSE [o EXCEPT !.state = "ended", !.done = @ + sentinels]

NoLast ==
  [kind |-> "none", isEnd |-> 0, text |-> <<>>, before |-> <<>>, start |-> 0,
   end |-> 0, chunk |-> <<>>, wrote |-> FALSE, seen |-> <<>>, extends |-> TRUE]

\* The part of a text before its first marker
Resolved(text) ==
  LET i == IndexOf(text, Marker)
  IN IF i = -1 THEN text ELSE SubSeq(text, 1, i)

\* The events so far: extends is true while the text of every message_result
\* began with the text before it, up to the first marker of that text, and
\* seen is that beginning of the latest text (empty once extends is false)
Heard(text) ==
  LET ext == last.extends /\ IsPrefix(last.seen, text)
  IN [NoLast EXCEPT !.seen = IF ext THEN Resolved(text) ELSE <<>>,
                    !.extends = ext]
Remembered == [NoLast EXCEPT !.seen = last.seen, !.extends = last.extends]

\* The object receiveStream builds before the first event (chat.ts:401-414);
\* content is choices[0].message.content
NewData ==
  [id |-> "", content |-> <<>>, object |-> "chat.completion",
   choices |-> <<[index |-> 0, role |-> "assistant", finish_reason |-> "stop"]>>,
   usage |-> [prompt_tokens |-> 1, completion_tokens |-> 1, total_tokens |-> 2]]

\* What a message_result event does to it (chat.ts:429-445)
BufferedAsChunk(d, isEnd, text) ==
  [d EXCEPT !.id = IF @ = "" THEN EventChatID ELSE @,
            !.content = @ \o Chunk(d.content, text),
            !.choices[1].finish_reason = IF isEnd = 0 THEN "stop" ELSE "null"]
Buffered(d, isEnd, text) ==
  [d EXCEPT !.id = IF @ = "" THEN EventChatID ELSE @,
            !.content = @ \o Chunk(d.content, text)]

\* createTransStream up to its return, with the role chunk written
\* (chat.ts:474-494), and the executor of receiveStream (chat.ts:399-415)
StreamInit ==
  /\ content = <<>>
  /\ convId = ""
  /\ transStream = Write(NewPassThrough, <<>>, "null")
  /\ endCallbacks = 0
  /\ data = NewData
  /\ promise = "pending"
  /\ upstream = "open"
  /\ nEvents = 0
  /\ last = NoLast

\* reject(err) and resolve(data): a promise settles once
Settle(how) == IF promise = "pending" THEN how ELSE promise

\* The upstream sends one more event
Delivered ==
  /\ upstream = "open"
  /\ nEvents < MaxEvents
  /\ nEvents' = nEvents + 1
  /\ UNCHANGED upstream

\* A message_result event with messageResult {chatID, isEnd, content: text}
\* reaches the parser callbacks (chat.ts:429-445, 508-538)
OnMessage(isEnd, text) ==
  /\ Delivered
  /\ LET chunk == Chunk(content, text)
         written == Write(transStream, chunk, IF isEnd = 0 THEN "stop" ELSE "null")
     IN IF isEnd # 0 /\ text = <<>>
        THEN /\ UNCHANGED <<content, convId, transStream, endCallbacks>>
             /\ last' = [Heard(text) EXCEPT !.kind = "skipped", !.isEnd = isEnd,
                                             !.before = content]
        ELSE /\ convId' = IF convId = "" THEN EventChatID ELSE convId
             /\ content' = content \o chunk
             /\ transStream' = IF isEnd = 0 THEN End(written, 1) ELSE written
             /\ endCallbacks' = IF isEnd = 0 THEN endCallbacks + 1 ELSE endCallbacks
             /\ last' = [Heard(text) EXCEPT
                           !.kind = "message", !.isEnd = isEnd, !.text = text,
                           !.before = content,
                           !.start = ChunkStart(content, text),
                           !.end = ChunkEnd(text), !.chunk = chunk,
                           !.wrote = written # transStream]
  /\ data' = Buffered(data, isEnd, text)
  /\ UNCHANGED promise
  /\ UNCHANGED otherThanStream

\* An event whose data is not JSON, or whose statusInfo.code is not 0 with
\* type other than 3: the callbacks throw (chat.ts:421-427, 451-454, 500-506,
\* 539-561)
OnBadEvent ==
  /\ Delivered
  /\ transStream' = IF transStream.state = "closed" THEN transStream
                    ELSE End(Write(transStream, ErrorMessage, "stop"), 1)
  /\ promise' = Settle("rejected")
  /\ last' = [Remembered EXCEPT !.kind = "threw", !.before = content]
  /\ UNCHANGED <<content, convId, endCallbacks, data>>
  /\ UNCHANGED otherThanStream

\* A well-formed event that is not a message_result (chat.ts:429, 508)
OnOtherEvent ==
  /\ Delivered
  /\ last' = [Remembered EXCEPT !.kind = "other", !.before = content]
  /\ UNCHANGED <<content, convId, transStream, endCallbacks, data, promise>>
  /\ UNCHANGED otherThanStream

\* The upstream stream emits "error" (chat.ts:458, 565-568)
UpstreamError ==
  /\ upstream = "open"
  /\ upstream' = "errored"
  /\ transStream' = End(transStream, 1)
  /\ promise' = Settle("rejected")
  /\ last' = Remembered
  /\ UNCHANGED <<content, convId, endCallbacks, data, nEvents>>
  /\ UNCHANGED otherThanStream

\* The upstream stream emits "close" (chat.ts:459, 569-572)
UpstreamClose ==
  /\ upstream \in {"open", "errored"}
  /\ upstream' = "closed"
  /\ transStream' = End(transStream, 1)
  /\ promise' = Settle("resolved")
  /\ last' = Remembered
  /\ UNCHANGED <<content, convId, endCallbacks, data, nEvents>>
  /\ UNCHANGED otherThanStream

\* The reader has drained the ended PassThrough, or an error has destroyed
\* it: "close" is emitted and transStream.closed becomes true
OutputCloses ==
  /\ transStream.state = "ended"
  /\ transStream' = [transStream EXCEPT !.state = "closed"]
  /\ UNCHANGED <<content, convId, endCallbacks, data, promise, upstream, nEvents,
                 last>>
  /\ UNCHANGED otherThanStream

StreamNext ==
  \/ \E isEnd \in {0, 1}, text \in Texts : OnMessage(isEnd, text)
  \/ OnBadEvent
  \/ OnOtherEvent
  \/ UpstreamError
  \/ UpstreamClose
  \/ OutputCloses

\* --------------------------------------- the multi-part createTransStream
\* Strings a value carries: text, code, execution output, or the titles of a
\* citation list and the links of an image list
Strs == UNION {[1..n -> {"a"}] : n \in 0..MaxLen}
NewLine == <<"\n">>
\* the fences of a code block; "~" stands for the backquote
codeHead == <<"~", "~", "~", "p", "y", "t", "h", "o", "n", "\n">>
codeFooter == <<"\n", "~", "~", "~", "\n">>

\* Two texts of an answer that arrives in two events
Hel == <<"H", "e", "l">>
Hello == <<"H", "e", "l", "l", "o">>

\* The values of result.parts[].content, each with the status of its part
Values ==
  [type : {"text"}, status : {"init"}, partStatus : {"init", "finish"},
   str : Strs \cup {Hel, Hello}]
  \cup [type : {"code"}, status : {"init"}, partStatus : {"init", "finish"},
        str : Strs]
  \cup [type : {"quote_result", "image"}, status : {"init", "finish"},
        partStatus : {"finish"}, str : {<<"a">>}]
  \cup [type : {"execution_output"}, status : {"init"},
        partStatus : {"init", "done"}, str : {<<"a">>, <<"a", "a">>}]

\* The events of the response: a list of values, the end of the answer, or
\* data that is not JSON
NoEvent == [status |-> "none", values |-> <<>>]
PartEvents == [status : {"loading"}, values : {<<v>> : v \in Values}]
EndEvents == [status : {"finish", "intervene"}, values : {<<>>}]
InvalidEvent == [status |-> "invalid", values |-> <<>>]

\* The events so far, seen as a code part (cumulative code values with
\* partStatus init, then finish) and as the answer Hel, Hello, finish
NoScript ==
  [code |-> "none", sent |-> <<>>, grown |-> FALSE, hello |-> 0]

IsValue(e, type, partStatus) ==
  /\ e.status = "loading"
  /\ e.values[1].type = type
  /\ e.values[1].partStatus = partStatus

Follows(e) ==
  [code |->
     IF /\ IsValue(e, "code", "init")
        /\ script.code \in {"none", "init"}
        /\ IsPrefix(script.sent, e.values[1].str)
     THEN "init"
     ELSE IF IsValue(e, "code", "finish") /\ script.code \in {"init", "closed"}
     THEN "closed"
     ELSE "off",
   sent |->
     IF IsValue(e, "code", "init") THEN e.values[1].str ELSE script.sent,
   grown |->
     \/ script.grown
     \/ /\ IsValue(e, "code", "init")
        /\ script.code = "init"
        /\ e.values[1].str # script.sent,
   hello |->
     IF /\ script.hello = 0
        /\ IsValue(e, "text", "init")
        /\ e.values[1].str = Hel
     THEN 1
     ELSE IF /\ script.hello = 1
             /\ IsValue(e, "text", "finish")
             /\ e.values[1].str = Hello
     THEN 2
     ELSE IF script.hello = 2 /\ e.status = "finish"
     THEN 3
     ELSE -1]

Locals ==
  [toolCall |-> toolCall, codeGenerating |-> codeGenerating,
   textChunkLength |-> textChunkLength, codeTemp |-> codeTemp,
   lastExecutionOutput |-> lastExecutionOutput, textOffset |-> textOffset]

PartsInit ==
  /\ toolCall = FALSE
  /\ codeGenerating = FALSE
  /\ textChunkLength = 0
  /\ codeTemp = <<>>
  /\ lastExecutionOutput = <<>>
  /\ textOffset = 0
  /\ prev = NoEvent
  /\ repeat = [repeated |-> FALSE, wrote |-> FALSE, changed |-> FALSE]
  /\ script = NoScript

\* if (partStatus == "init" && textChunkLength > 0) (part_003:660-664)
NextText(st, v) ==
  IF v.partStatus = "init" /\ st.textChunkLength > 0
  THEN [st |-> [st EXCEPT !.textOffset = @ + st.textChunkLength + 1,
                          !.textChunkLength = 0],
        str |-> NewLine]
  ELSE [st |-> st, str |-> <<>>]

\* code.substring(codeTemp.length, code.length) (part_003:710)
CodeChunkWhole(code, sent) == code
CodeChunk(code, sent) == Substring(code, Len(sent), Len(code))

\* The callback of content.reduce for one value (part_003:651-735): the
\* locals after it and the text it appends to innerStr
ValueText(st0, v) ==
  LET n == NextText(st0, v)
      st == n.st
  IN  IF v.type = "text"
      THEN [st |-> [st EXCEPT !.textOffset = IF st.toolCall THEN @ + 1 ELSE @,
                              !.toolCall = FALSE,
                              !.textChunkLength =
                                 IF v.partStatus = "finish" THEN Len(v.str) ELSE @],
            str |-> n.str \o (IF st.toolCall THEN NewLine ELSE <<>>) \o v.str]
      ELSE IF v.type \in {"quote_result", "image"} /\ v.status = "finish"
      THEN [st |-> [st EXCEPT !.textOffset = @ + Len(v.str) + 1, !.toolCall = TRUE],
            str |-> n.str \o v.str \o NewLine]
      ELSE IF v.type = "code" /\ v.partStatus = "init"
      THEN LET head == IF st.codeGenerating THEN <<>> ELSE codeHead
               chunk == CodeChunk(v.str, st.codeTemp)
           IN [st |-> [st EXCEPT !.codeGenerating = TRUE,
                                 !.codeTemp = @ \o chunk,
                                 !.textOffset = @ + Len(head) + Len(chunk)],
               str |-> n.str \o head \o chunk]
      ELSE IF v.type = "code" /\ v.partStatus = "finish" /\ st.codeGenerating
      THEN [st |-> [st EXCEPT !.codeGenerating = FALSE, !.codeTemp = <<>>,
                              !.textOffset = @ + Len(codeFooter)],
            str |-> n.str \o codeFooter]
      ELSE IF /\ v.type = "execution_output"
              /\ v.partStatus = "done"
              /\ st.lastExecutionOutput # v.str
      THEN [st |-> [st EXCEPT !.lastExecutionOutput = v.str,
                              !.textOffset = @ + Len(v.str) + 1],
            str |-> n.str \o v.str \o NewLine]
      ELSE [st |-> st, str |-> n.str]

\* result.parts.reduce over the values of an event (part_003:648-737)
RECURSIVE PartsText(_, _)
PartsText(st, values) ==
  IF values = <<>>
  THEN [st |-> st, str |-> <<>>]
  ELSE LET head == ValueText(st, Head(values))
           rest == PartsText(head.st, Tail(values))
       IN [st |-> rest.st, str |-> head.str \o rest.str]

\* The upstream sends one more event, e
PartsDelivered(e) ==
  /\ upstream = "open"
  /\ nEvents < MaxEvents
  /\ nEvents' = nEvents + 1
  /\ prev' = e
  /\ script' = Follows(e)
  /\ UNCHANGED upstream

\* text.substring(content.length - textOffset, text.length) (part_003:738)
PartsChunkWhole(text, sent, offset) == text
PartsChunk(text, sent, offset) == Substring(text, Len(sent) - offset, Len(text))

\* What the callback did, for an event equal to the one before it
Repeated(e, out, st, text) ==
  [repeated |-> e = prev, wrote |-> out # transStream,
   changed |-> \/ text # content
               \/ st.textOffset # textOffset
               \/ st.codeGenerating # codeGenerating
               \/ st.toolCall # toolCall
               \/ st.lastExecutionOutput # lastExecutionOutput]

\* An event whose status is neither "finish" nor "intervene"
\* (part_003:647-751)
OnParts(e) ==
  /\ PartsDelivered(e)
  /\ LET r == PartsText(Locals, e.values)
         text == r.str
         chunk == PartsChunk(text, content, r.st.textOffset)
         out == IF chunk # <<>> THEN Write(transStream, chunk, "null")
                ELSE transStream
     IN /\ toolCall' = r.st.toolCall
        /\ codeGenerating' = r.st.codeGenerating
        /\ textChunkLength' = r.st.textChunkLength
        /\ codeTemp' = r.st.codeTemp
        /\ lastExecutionOutput' = r.st.lastExecutionOutput
        /\ textOffset' = r.st.textOffset
        /\ content' = content \o chunk
        /\ transStream' = out
        /\ repeat' = Repeated(e, out, r.st, content \o chunk)
  /\ UNCHANGED endCallbacks
  /\ UNCHANGED otherThanParts

\* The event with status "finish" or "intervene" (part_003:752-776)
OnFinish(e) ==
  /\ PartsDelivered(e)
  /\ LET delta == IF e.status = "intervene" THEN <<"\n", "\n", "!">> ELSE <<>>
         out == End(Write(transStream, delta, "stop"), 1)
     IN /\ transStream' = out
        /\ repeat' = Repeated(e, out, Locals, <<>>)
  /\ content' = <<>>
  /\ endCallbacks' = endCallbacks + 1
  /\ UNCHANGED <<toolCall, codeGenerating, textChunkLength, codeTemp,
                 lastExecutionOutput, textOffset>>
  /\ UNCHANGED otherThanParts

\* An event whose data is not JSON: the catch branch ends the output with
\* "\n\n" (part_003:644-646, 777-780)
OnInvalid ==
  /\ PartsDelivered(InvalidEvent)
  /\ LET out == End(transStream, 0)
     IN /\ transStream' = out
        /\ repeat' = Repeated(InvalidEvent, out, Locals, content)
  /\ UNCHANGED <<content, endCallbacks, toolCall, codeGenerating, textChunkLength,
                 codeTemp, lastExecutionOutput, textOffset>>
  /\ UNCHANGED otherThanParts

\* The upstream stream emits "error" or "close" (part_003:784-791)
PartsUpstreamEnds(event) ==
  /\ upstream \in (IF event = "error" THEN {"open"} ELSE {"open", "errored"})
  /\ upstream' = IF event = "error" THEN "errored" ELSE "closed"
  /\ transStream' = End(transStream, 1)
  /\ UNCHANGED <<content, endCallbacks, nEvents, toolCall, codeGenerating,
                 textChunkLength, codeTemp, lastExecutionOutput, textOffset,
                 prev, repeat, script>>
  /\ UNCHANGED otherThanParts

PartsNext ==
  \/ \E e \in PartEvents : OnParts(e)
  \/ \E e \in EndEvents : OnFinish(e)
  \/ OnInvalid
  \/ \E event \in {"error", "close"} : PartsUpstreamEnds(event)
  \/ OutputCloses

\* ------------------------------------------------ audio.ts createSpeech
Speakers == 1..NSpeakers
Voices == {"male-botong", "female-shaonv"}
\* the poll gives up once Date.now() - startTime exceeds this (audio.ts:72)
POLL_TIMEOUT == 30000

\* An AsyncLock key: free, or held by a call with the calls queued behind it;
\* 0 is no call
FreeLock == [holder |-> 0, queue |-> <<>>]

SpeechInit ==
  /\ speechAt = [p \in Speakers |-> "idle"]
  /\ speechToken = [p \in Speakers |-> "A"]
  /\ speechVoice = [p \in Speakers |-> "male-botong"]
  /\ speechError = [p \in Speakers |-> "none"]
  /\ waited = [p \in Speakers |-> FALSE]
  /\ elapsed = [p \in Speakers |-> 0]
  /\ audioUrls = [p \in Speakers |-> 0]
  /\ voiceLock = [t \in Tokens |-> FreeLock]
  /\ robotVoiceID = [t \in Tokens |-> "none"]

\* Whether voiceLock.acquire finds the key taken
LockedNever(t) == FALSE
Locked(t) == voiceLock[t].holder # 0

\* The lock once the function of its holder has settled: the first queued
\* call becomes the holder
Release(lock) ==
  IF lock.queue = <<>> THEN FreeLock
  ELSE [holder |-> Head(lock.queue), queue |-> Tail(lock.queue)]

\* The lock once the function of its holder has thrown
KeepOnThrow(lock) == lock
ReleaseOnThrow(lock) == Release(lock)

\* The position of every call after call p has left the locked section: p goes
\* to where, and the new holder of the lock starts its persona switch
Handover(p, where, lock) ==
  [q \in Speakers |->
     IF q = p THEN where
     ELSE IF q = lock.holder /\ speechAt[q] = "queued" THEN "switch"
     ELSE speechAt[q]]

\* createSpeech(model, input, voice, token) is called: the repeat-back turn
\* is requested (audio.ts:34-45).  Calls, tokens and voices are
\* interchangeable: the calls start in order and the first one names the
\* token and the voice
createSpeech(p, t, v) ==
  /\ speechAt[p] = "idle"
  /\ \A q \in Speakers : q < p => speechAt[q] # "idle"
  /\ p = 1 => (t = "A" /\ v = "male-botong")
  /\ speechAt' = [speechAt EXCEPT ![p] = "repeat"]
  /\ speechToken' = [speechToken EXCEPT ![p] = t]
  /\ speechVoice' = [speechVoice EXCEPT ![p] = v]
  /\ UNCHANGED <<speechError, waited, elapsed, audioUrls, voiceLock, robotVoiceID>>
  /\ UNCHANGED otherThanSpeech

\* The call throws err out of createSpeech
SpeechThrows(p, err) ==
  /\ speechError' = [speechError EXCEPT ![p] = err]

\* chat.createRepeatCompletion settles (audio.ts:41-46)
RepeatSettles(p, ok) ==
  /\ speechAt[p] = "repeat"
  /\ IF ok
     THEN /\ speechAt' = [speechAt EXCEPT ![p] = "acquire"]
          /\ UNCHANGED speechError
     ELSE /\ speechAt' = [speechAt EXCEPT ![p] = "failed"]
          /\ SpeechThrows(p, "repeat")
  /\ UNCHANGED <<speechToken, speechVoice, waited, elapsed, audioUrls, voiceLock,
                 robotVoiceID>>
  /\ UNCHANGED otherThanSpeech

\* core.acquireDeviceInfo settles; on success voiceLock.acquire(token, fn) is
\* called: fn starts if the key is free and is queued otherwise
\* (audio.ts:48-63)
DeviceSettles(p, ok) ==
  /\ speechAt[p] = "acquire"
  /\ LET t == speechToken[p]
     IN IF ~ok
        THEN /\ speechAt' = [speechAt EXCEPT ![p] = "failed"]
             /\ SpeechThrows(p, "device")
             /\ UNCHANGED <<voiceLock, waited>>
        ELSE IF Locked(t)
        THEN /\ speechAt' = [speechAt EXCEPT ![p] = "queued"]
             /\ voiceLock' = [voiceLock EXCEPT ![t].queue = Append(@, p)]
             /\ waited' = [waited EXCEPT ![p] = TRUE]
             /\ UNCHANGED speechError
        ELSE /\ speechAt' = [speechAt EXCEPT ![p] = "switch"]
             /\ voiceLock' = [voiceLock EXCEPT ![t].holder = p]
             /\ UNCHANGED <<speechError, waited>>
  /\ UNCHANGED <<speechToken, speechVoice, elapsed, audioUrls, robotVoiceID>>
  /\ UNCHANGED otherThanSpeech

\* The persona switch answers (audio.ts:55-65); on success the poll loop
\* starts with its first request (audio.ts:68-79)
SwitchSettles(p, ok) ==
  /\ speechAt[p] = "switch"
  /\ LET t == speechToken[p]
         lock == ReleaseOnThrow(voiceLock[t])
     IN IF ok
        THEN /\ robotVoiceID' = [robotVoiceID EXCEPT ![t] = speechVoice[p]]
             /\ speechAt' = [speechAt EXCEPT ![p] = "poll"]
             /\ elapsed' = [elapsed EXCEPT ![p] = 0]
             /\ UNCHANGED <<voiceLock, speechError>>
        ELSE /\ voiceLock' = [voiceLock EXCEPT ![t] = lock]
             /\ speechAt' = Handover(p, "failed", lock)
             /\ SpeechThrows(p, "switch")
             /\ UNCHANGED <<robotVoiceID, elapsed>>
  /\ UNCHANGED <<speechToken, speechVoice, waited, audioUrls>>
  /\ UNCHANGED otherThanSpeech

\* if (Date.now() - startTime > 30000) throw (audio.ts:72)
TimedOutNever(ms) == FALSE
TimedOut(ms) == ms > POLL_TIMEOUT

\* A synthesis poll answers after PollMs (audio.ts:73-80): with an error,
\* with requestStatus below 2, or with requestStatus 2 and urls segment URLs.
\* elapsed is kept only while the loop goes on
PollSettles(p, answer, urls) ==
  /\ speechAt[p] = "poll"
  /\ LET t == speechToken[p]
         late == elapsed[p] + PollMs
     IN /\ elapsed' = [elapsed EXCEPT ![p] = IF answer = "pending" THEN late ELSE 0]
        /\ IF answer = "error" \/ (answer = "pending" /\ TimedOut(late))
           THEN LET lock == ReleaseOnThrow(voiceLock[t])
                IN /\ voiceLock' = [voiceLock EXCEPT ![t] = lock]
                   /\ speechAt' = Handover(p, "failed", lock)
                   /\ SpeechThrows(p, IF answer = "error" THEN "poll" ELSE "timeout")
                   /\ UNCHANGED audioUrls
           ELSE IF answer = "pending"
           THEN UNCHANGED <<voiceLock, speechAt, speechError, audioUrls>>
           ELSE LET lock == Release(voiceLock[t])
                IN /\ voiceLock' = [voiceLock EXCEPT ![t] = lock]
                   /\ speechAt' = Handover(p, "remove", lock)
                   /\ audioUrls' = [audioUrls EXCEPT ![p] = urls]
                   /\ UNCHANGED speechError
  /\ UNCHANGED <<speechToken, speechVoice, waited, robotVoiceID>>
  /\ UNCHANGED otherThanSpeech

\* chat.removeConversation settles; then the test of audioUrls.length and
\* the download requests (audio.ts:85-100)
RemoveSettles(p, ok) ==
  /\ speechAt[p] = "remove"
  /\ IF ~ok
     THEN /\ speechAt' = [speechAt EXCEPT ![p] = "failed"]
          /\ SpeechThrows(p, "remove")
     ELSE IF audioUrls[p] = 0
     THEN /\ speechAt' = [speechAt EXCEPT ![p] = "failed"]
          /\ SpeechThrows(p, "empty")
     ELSE /\ speechAt' = [speechAt EXCEPT ![p] = "download"]
          /\ UNCHANGED speechError
  /\ UNCHANGED <<speechToken, speechVoice, waited, elapsed, audioUrls, voiceLock,
                 robotVoiceID>>
  /\ UNCHANGED otherThanSpeech

\* The downloads settle (audio.ts:89-108)
DownloadSettles(p, ok) ==
  /\ speechAt[p] = "download"
  /\ IF ok
     THEN /\ speechAt' = [speechAt EXCEPT ![p] = "done"]
          /\ UNCHANGED speechError
     ELSE /\ speechAt' = [speechAt EXCEPT ![p] = "failed"]
          /\ SpeechThrows(p, "download")
  /\ UNCHANGED <<speechToken, speechVoice, waited, elapsed, audioUrls, voiceLock,
                 robotVoiceID>>
  /\ UNCHANGED otherThanSpeech

\* The requests call p waits for are answered
SpeechStep(p) ==
  \/ \E ok \in BOOLEAN : RepeatSettles(p, ok)
  \/ \E ok \in BOOLEAN : DeviceSettles(p, ok)
  \/ \E ok \in BOOLEAN : SwitchSettles(p, ok)
  \/ \E answer \in {"error", "pending", "ready"}, urls \in {0, 1} :
       PollSettles(p, answer, urls)
  \/ \E ok \in BOOLEAN : RemoveSettles(p, ok)
  \/ \E ok \in BOOLEAN : DownloadSettles(p, ok)

SpeechNext ==
  \/ \E p \in Speakers, t \in Tokens, v \in Voices : createSpeech(p, t, v)
  \/ \E p \in Speakers : SpeechStep(p)

\* ------------------------------------------------- the speech route's voice
\* The six voice names of the OpenAI speech API, in the order of
\* voiceToModelIndex (routes/audio.ts:9-16, 76-83)
StandardVoices == <<"alloy", "echo", "fable", "onyx", "nova", "shimmer">>

\* The personas they stand for (routes/audio.ts:18-25, 86-91)
tem_replace_audio_model ==
  <<"male-botong", "Podcast_girl", "boyan_new_hailuo", "female-shaonv",
    "YaeMiko_hailuo", "xiaoyi_mix_hailuo">>

\* Property names every object literal inherits from Object.prototype
Inherited == {"constructor", "toString"}

\* What a request may name as its voice
BodyVoices ==
  {StandardVoices[i] : i \in 1..6} \cup Inherited \cup {"male-botong", "my-voice"}

\* The environment: no REPLACE_AUDIO_MODEL, or a list of persona names, some
\* possibly empty
Unset == <<"unset">>
Overrides == {"", "xiaomo_sft"}
Envs ==
  {Unset} \cup UNION {[1..n -> Overrides] : n \in 1..MaxOverrides}

Routes == {"parsed", "split", "merged"}

\* voiceToModelIndex[voice], for one of the six names
voiceToModelIndex(v) == (CHOOSE i \in 1..6 : StandardVoices[i] = v) - 1

\* voice in voiceToModelIndex: own and inherited properties
InIndex(v) == (\E i \in 1..6 : StandardVoices[i] = v) \/ v \in Inherited

\* const REPLACE_AUDIO_MODEL = ..., evaluated when the module loads:
\*   "parsed"  JSON.parse(env || JSON.stringify(defaults)) (routes/audio.ts:27)
\*   "split"   env ? env.split(',').map(trim) : defaults   (routes/audio.ts:85)
\*   "merged"  defaults.map((v, i) => (env || "").split(",")[i] || v)
\*                                                         (part_001:13-27)
\* A list holding one empty name is the empty string in "split".
ReplaceAudioModel(r, env) ==
  IF r = "parsed"
  THEN IF env = Unset THEN tem_replace_audio_model ELSE env
  ELSE IF r = "split"
  THEN IF env = Unset \/ env = <<"">> THEN tem_replace_audio_model ELSE env
  ELSE LET list == IF env = Unset THEN <<"">> ELSE env
       IN [i \in 1..6 |->
             IF i <= Len(list) /\ list[i] # ""
             THEN list[i]
             ELSE tem_replace_audio_model[i]]

\* The voice the handler gives createSpeech (routes/audio.ts:46-53, 110-113;
\* part_001:43-47). For an inherited name the index is a function: the range
\* test is false, the table has no such element.
RouteVoice(r, table, v) ==
  IF ~InIndex(v)
  THEN v
  ELSE IF v \in Inherited
  THEN "male-botong"
  ELSE LET i == voiceToModelIndex(v) + 1
       IN IF r = "parsed"
          THEN IF i <= Len(table) THEN table[i] ELSE "male-botong"
          ELSE IF i <= Len(table) /\ table[i] # ""
               THEN table[i]
               ELSE "male-botong"

\* consts/model-map.ts as the README gives it: per speech model, the persona
\* of each of the six voice names
HdPersonas ==
  <<"xiaomo_sft", "Leishen2_hailuo", "Zhongli_hailuo", "Paimeng_hailuo",
    "keli_hailuo", "Hutao_hailuo">>
modelMap ==
  [m \in {"tts-1", "tts-1-hd"} |->
     IF m = "tts-1" THEN tem_replace_audio_model ELSE HdPersonas]

BodyModels == {"tts-1", "tts-1-hd", "hailuo"}

\* if (modelMap[model]) voice = modelMap[model][voice] || voice
\* (controllers/audio.ts:51)
SpeechVoice(m, v) ==
  IF m \in DOMAIN modelMap /\ (\E i \in 1..6 : StandardVoices[i] = v)
  THEN modelMap[m][voiceToModelIndex(v) + 1]
  ELSE v

NoVoice == "none"

VoiceInit ==
  /\ route = "none"
  /\ replaceEnv = Unset
  /\ REPLACE_AUDIO_MODEL = <<>>
  /\ bodyVoice = NoVoice
  /\ voice = NoVoice
  /\ bodyModel = "none"
  /\ persona = NoVoice

\* The process starts: the route module is loaded under one environment
LoadRoute(r, env) ==
  /\ route = "none"
  /\ route' = r
  /\ replaceEnv' = env
  /\ REPLACE_AUDIO_MODEL' = ReplaceAudioModel(r, env)
  /\ UNCHANGED <<bodyVoice, voice, bodyModel, persona>>
  /\ UNCHANGED otherThanVoice

\* POST /v1/audio/speech with body.model = m and body.voice = v, up to the
\* persona createSpeech switches to
PostSpeech(m, v) ==
  /\ route # "none"
  /\ bodyVoice' = v
  /\ bodyModel' = m
  /\ voice' = RouteVoice(route, REPLACE_AUDIO_MODEL, v)
  /\ persona' = SpeechVoice(m, RouteVoice(route, REPLACE_AUDIO_MODEL, v))
  /\ UNCHANGED <<route, replaceEnv, REPLACE_AUDIO_MODEL>>
  /\ UNCHANGED otherThanVoice

VoiceNext ==
  \/ \E r \in Routes, env \in Envs : LoadRoute(r, env)
  \/ \E m \in BodyModels, v \in BodyVoices : PostSpeech(m, v)

\* ------------------------------------------------ chat.ts messagesPrepare
\* A message is a role and a content: a string, or an array of parts of type
\* text, file or image_url.  "img" stands for a text that is a Markdown
\* image, which the role branch removes from the merged content
Part(type, text) == [type |-> type, text |-> text]
Contents ==
  [isArray : {FALSE}, parts : {<<Part("text", t)>> : t \in {"x", "img"}}]
  \cup [isArray : {TRUE},
        parts : {<<Part("text", "x")>>, <<Part("file", "")>>,
                 <<Part("file", ""), Part("text", "x")>>,
                 <<Part("image_url", ""), Part("text", "x")>>}]
Messages == [role : {"user", "assistant"}, content : Contents]
MessageLists == UNION {[1..n -> Messages] : n \in 0..MaxMessages}

\* latestMessage.content.some(v => ["file", "image_url"].includes(v.type))
\* (chat.ts:329-335)
hasFileOrImage(m) ==
  /\ m.content.isArray
  /\ \E k \in 1..Len(m.content.parts) :
        m.content.parts[k].type \in {"file", "image_url"}

\* The message the role branch injects (chat.ts:337-340)
newFileMessage ==
  [role |-> "system",
   content |-> [isArray |-> FALSE, parts |-> <<Part("text", "attend")>>]]

\* messages.splice(index, 0, newFileMessage) (chat.ts:341): the list itself
\* is changed
SpliceAtEnd(ms) == Len(ms)
SpliceAt(ms) == Len(ms) - 1
Splice(ms, index, m) ==
  SubSeq(ms, 1, index) \o <<m>> \o SubSeq(ms, index + 1, Len(ms))

\* The lines one message adds to the merged content: one for each text part
\* or for the string, with the marker role: in the role branch and without
\* it in the other (chat.ts:317-325, 353-361); .replace removes a Markdown
\* image from the merged content of the role branch (chat.ts:363-365)
MessageLines(m, marked) ==
  LET texts == SelectSeq(m.content.parts, LAMBDA v : v.type = "text")
  IN [k \in 1..Len(texts) |->
        [role |-> IF marked THEN m.role ELSE "",
         text |-> IF marked /\ texts[k].text = "img" THEN "" ELSE texts[k].text]]

RECURSIVE MergedLines(_, _)
MergedLines(ms, marked) ==
  IF ms = <<>> THEN <<>>
  ELSE MessageLines(Head(ms), marked) \o MergedLines(Tail(ms), marked)

\* messagesPrepare(messages, refs, refConvId): the list it leaves behind and
\* the payload it returns (chat.ts:310-386); refs holds the files of the
\* latest message (chat.ts:59-64, 270-296)
messagesPrepare(ms, ref) ==
  LET through == ref # "" \/ Len(ms) < 2
      list == IF ~through /\ hasFileOrImage(ms[Len(ms)])
              THEN Splice(ms, SpliceAt(ms), newFileMessage)
              ELSE ms
      msgContent == IF through THEN MergedLines(ms, FALSE)
                    ELSE MergedLines(list, TRUE)
                           \o <<[role |-> "assistant", text |-> ""]>>
      refs == ms # <<>> /\ hasFileOrImage(ms[Len(ms)])
  IN [messages |-> list,
      payload |-> [msgContent |-> msgContent,
                   chatID |-> IF ref = "" THEN "0" ELSE ref,
                   form |-> IF refs THEN msgContent ELSE <<>>]]

PrepareInit ==
  /\ messages = <<>>
  /\ given = [messages |-> <<>>, refConvId |-> "", calls |-> 0]
  /\ payloads = <<>>
  /\ preparing = FALSE

\* createCompletion or createCompletionStream is called with the caller's
\* list and a reference that passed the test of chat.ts:67, or ""
Completion(ms, ref) ==
  /\ ~preparing
  /\ given.calls = 0
  /\ messages' = ms
  /\ given' = [messages |-> ms, refConvId |-> ref, calls |-> 1]
  /\ payloads' = <<>>
  /\ preparing' = TRUE
  /\ UNCHANGED otherThanPrepare

\* One attempt: messagesPrepare builds the payload from the caller's list;
\* the attempt succeeds, or fails and is made again with the same list while
\* retryCount < MAX_RETRY_COUNT (chat.ts:73-76, 103-121, 157-160, 184-202)
PrepareAttempt(ok) ==
  /\ preparing
  /\ LET r == messagesPrepare(messages, given.refConvId)
     IN /\ messages' = r.messages
        /\ payloads' = Append(payloads, r.payload)
  /\ preparing' = (~ok /\ Len(payloads) < MAX_RETRY_COUNT)
  /\ UNCHANGED given
  /\ UNCHANGED otherThanPrepare

PrepareNext ==
  \/ \E ms \in MessageLists, ref \in {"", "ref"} : Completion(ms, ref)
  \/ \E ok \in BOOLEAN : PrepareAttempt(ok)

\* ------------------------------------------- audio.ts segment downloads
\* What a download request can settle with: a response with status 200, a
\* response with another status axios accepts, or a rejection (a status
\* axios refuses, a timeout, a network error)
Answers == {"200", "206", "rejected"}
Pending == [status |-> "pending", data |-> 0]

DownloadInit ==
  /\ segments = -1
  /\ downloadResults = <<>>
  /\ arrived = <<>>
  /\ audioBuffer = <<>>
  /\ speechResult = "pending"

\* The loop over downloadResults (audio.ts:102-107): the bodies in the order
\* of the array Promise.all resolved with, which is the order of audioUrls
ConcatenatedAsArrived(results, order) ==
  [k \in 1..Len(order) |-> results[order[k]].data]
Concatenated(results, order) == [i \in 1..Len(results) |-> results[i].data]

\* The poll has returned n segment URLs and the conversation is removed:
\* the test of audioUrls.length, then one axios.get for each URL
\* (audio.ts:85-101)
StartDownloads(n) ==
  /\ segments = -1
  /\ segments' = n
  /\ downloadResults' = [i \in 1..n |-> Pending]
  /\ speechResult' = IF n = 0 THEN "empty" ELSE "pending"
  /\ UNCHANGED <<arrived, audioBuffer>>
  /\ UNCHANGED otherThanDownload

\* The request for segment i settles, in any order; the body of segment i is
\* i.  A rejection rejects Promise.all at once; when the last request is
\* fulfilled the loop tests every status and concatenates (audio.ts:91-108)
DownloadAnswers(i, answer) ==
  /\ speechResult = "pending"
  /\ i \in 1..Len(downloadResults)
  /\ downloadResults[i] = Pending
  /\ LET results == [downloadResults EXCEPT ![i] = [status |-> answer, data |-> i]]
         order == Append(arrived, i)
     IN /\ downloadResults' = results
        /\ arrived' = order
        /\ IF answer = "rejected"
           THEN /\ speechResult' = "download"
                /\ UNCHANGED audioBuffer
           ELSE IF \E j \in 1..Len(results) : results[j] = Pending
           THEN UNCHANGED <<speechResult, audioBuffer>>
           ELSE IF \E j \in 1..Len(results) : results[j].status # "200"
           THEN /\ speechResult' = "download"
                /\ UNCHANGED audioBuffer
           ELSE /\ speechResult' = "audio"
                /\ audioBuffer' = Concatenated(results, order)
  /\ UNCHANGED segments
  /\ UNCHANGED otherThanDownload

DownloadNext ==
  \/ \E n \in 0..MaxSegments : StartDownloads(n)
  \/ \E i \in 1..MaxSegments, answer \in Answers : DownloadAnswers(i, answer)

\* -------------------------------------------------------- specifications
Init ==
  /\ DeviceInit /\ CallInit /\ StreamInit /\ PartsInit /\ SpeechInit
  /\ VoiceInit /\ PrepareInit /\ DownloadInit

SpecDevice == Init /\ [][DeviceNext]_vars

SpecCall == Init /\ [][CallNext]_vars

SpecStream == Init /\ [][StreamNext]_vars

SpecParts == Init /\ [][PartsNext]_vars

SpecSpeech == Init /\ [][SpeechNext]_vars

SpecVoice == Init /\ [][VoiceNext]_vars

SpecPrepare == Init /\ [][PrepareNext]_vars

SpecDownload == Init /\ [][DownloadNext]_vars

\* The operations on the state the calls share, which is keyed by credential:
\* a run of calls of the device-identity cache, or a run of createSpeech calls
SharedNext ==
  \/ SpeechInit /\ DeviceNext
  \/ DeviceInit /\ SpeechNext

SpecShared == Init /\ [][SharedNext]_vars

\* Every request has a timeout (core.ts:323, audio.ts:96): each await of a
\* call is eventually resumed
SpecSpeechFair == SpecSpeech /\ \A p \in Speakers : WF_vars(SpeechStep(p))

\* ---------------------------------------------------------------- claims
Awaiting(t) ==
  {p \in Procs : tok[p] = t /\ pc[p] \in {"issuer1", "issuer2", "queued1", "queued2"}}
\* p holds the outcome of an acquireDeviceInfo call that awaited a registration
Resumed(p) ==
  /\ att[p] # 0
  /\ \/ op[p] = "acquire" /\ pc[p] = "done"
     \/ pc[p] = "liveRequest"

\* C1: while calls for one credential await a registration, exactly one
\* registration request is in flight for it, issued by exactly one of them and
\* awaited by all; and when it succeeds, every call that awaited it gets the
\* same identity {deviceId, userId, refreshTime}, the one that registration made.
C1_OneRegistrationSameIdentity ==
  /\ \A t \in Tokens :
       Awaiting(t) # {} =>
         /\ registering[t] = 1
         /\ Cardinality({p \in Awaiting(t) : pc[p] \in {"issuer1", "issuer2"}}) = 1
         /\ \A p \in Awaiting(t) : att[p] = regId[t]
  /\ \A p, q \in Procs :
       (Resumed(p) /\ Resumed(q) /\ att[p] = att[q] /\ ret[p].kind = "id") =>
         /\ ret[q] = ret[p]
         /\ ret[p].reg = att[p]
         /\ ~thrown[p]
  /\ \A t \in Tokens : registering[t] <= 1

\* Three concurrent calls for one credential all resumed by one successful
\* registration
C1_Witness ==
  /\ \A p \in {1, 2, 3} : pc[p] = "done" /\ att[p] = 1 /\ ret[p].kind = "id"
  /\ regIssued = 1

\* C2: the cache never holds the outcome of a failed registration
C2_FailedRegistrationNeverCached ==
  \A t \in Tokens : deviceInfoMap[t].kind \in {"none", "id"}

\* C3: a call resumed with the error of a failed registration ends by throwing
\* it, whether it issued the registration or was queued behind it
C3_QueuedCallsFailToo ==
  \A p \in Procs : ret[p].kind = "err" => thrown[p]

\* C4: a completion call makes at most 1 + MAX_RETRY_COUNT attempts, makes none
\* after a successful one, and, once an attempt has been made, ends in error
\* only after exactly 1 + MAX_RETRY_COUNT attempts, with the error of the last
C4_RetryBudget ==
  /\ attempts <= 1 + MAX_RETRY_COUNT
  /\ outcome.result = "ok" => attempts = succeededAt
  /\ (outcome.result = "error" /\ attempts >= 1) =>
        /\ attempts = 1 + MAX_RETRY_COUNT
        /\ outcome.attempt = attempts

\* C9: no DELETE request is issued for the conversation a call continues
C9_NoDeleteForContinuation ==
  refConvId = Ref => Ref \notin deletes

\* The call is over, its stream has ended and no deletion is under way or failed
TurnSettled ==
  /\ phase \in {"returned", "failed", "closed"}
  /\ removal.stage \in {"none", "done"}

\* C10: once a chat turn is over, every conversation the upstream created for it
\* has had its DELETE issued, however the stream ended
C10_FreshConversationDeleted ==
  (fn \in ChatFns /\ TurnSettled) =>
    \A c \in assigned : c # Ref => c \in deletes

\* C5: once receiveStream has resolved, the delta contents createTransStream
\* wrote for the same events concatenate to the content of the message
C5_StreamedEqualsBuffered ==
  promise = "resolved" => transStream.written = data.content

\* C6: an ended output ends with a finish_reason: stop chunk and one [DONE]
\* sentinel, and nothing is written to it or ends it after it was ended
C6_StopThenOneDone ==
  /\ transStream.state # "open" =>
        /\ transStream.lastFinish = "stop"
        /\ transStream.done = 1
  /\ transStream.lateWrites = 0
  /\ transStream.lateEnds = 0

\* C7: an event equal to the event before it writes nothing to the output and
\* leaves content, textOffset, codeGenerating, toolCall and lastExecutionOutput
\* as the first occurrence left them
C7_RepeatedEventIdempotent ==
  (repeat.repeated /\ prev.status = "loading") =>
    /\ ~repeat.wrote
    /\ ~repeat.changed

\* C8: an event before the end event, on an open output, reads no chunk from a
\* start index beyond its end index; and when its cumulative text is no longer
\* than the text already accepted, its chunk is empty, content is unchanged
\* and no chunk is written
C8_ShorterTextWritesNothing ==
  (last.kind = "message" /\ last.isEnd # 0 /\ transStream.state = "open") =>
    /\ last.start <= last.end
    /\ Len(last.text) <= Len(last.before) =>
          /\ last.chunk = <<>>
          /\ content = last.before
          /\ ~last.wrote

\* C11: a failure of the validation of a referenced file is not retried: once
\* it is caught, the call has failed, on its first attempt
C11_FileFailureNotRetried ==
  outcome.error = "file" => (phase = "failed" /\ attempts = 1)

\* C12: a failure of acquireDeviceInfo inside a completion call is not
\* retried: once it is caught, the call has failed, after a single attempt
C12_DeviceFailureNotRetried ==
  outcome.error = "device" => (phase = "failed" /\ attempts = 1)

\* C13: a call in which the validation of a referenced file has failed never
\* invokes requestStream, in any of its attempts
C13_NoStreamAfterFileFailure ==
  "file" \in caught => requested = 0

\* C14: a streaming completion call never ends by throwing: when its retry
\* budget is exhausted the caller still gets an output stream
C14_ExhaustedStreamStillAnswers ==
  fn = "createCompletionStream" => outcome.result # "error"

\* C15: once an event with malformed JSON has been handled, or the upstream
\* stream has errored or closed, the output is no longer open and carries the
\* [DONE] sentinel
C15_ErrorEndsWithDone ==
  (prev.status = "invalid" \/ upstream # "open") =>
    /\ transStream.state # "open"
    /\ transStream.done = 1

\* Call p is between the start of its persona switch and the end of its poll
InSection(p) == speechAt[p] \in {"switch", "poll"}

\* C16: two createSpeech calls inside the switch-and-poll section never have
\* the same credential; while a call polls, the persona of its account is the
\* one it switched to; and a call waits for the lock only while a call of the
\* same credential is inside the section
C16_OneSpeechPerCredential ==
  /\ \A p, q \in Speakers :
       (p # q /\ InSection(p) /\ InSection(q)) => speechToken[p] # speechToken[q]
  /\ \A p \in Speakers :
       speechAt[p] = "poll" => robotVoiceID[speechToken[p]] = speechVoice[p]
  /\ \A p \in Speakers :
       speechAt[p] = "queued" =>
         \E q \in Speakers \ {p} : InSection(q) /\ speechToken[q] = speechToken[p]

\* A call polls while a call of the same credential and another voice waits,
\* and a call of the other credential is not held up
C16_Witness ==
  /\ speechAt[1] = "poll"
  /\ speechAt[2] = "queued"
  /\ speechToken[1] = speechToken[2]
  /\ speechVoice[1] # speechVoice[2]

\* C17: the lock of a credential is held only by a call that is inside the
\* section, so a call that threw there has released it; and every call that
\* waits for the lock eventually enters the section
C17_LockReleasedAfterError ==
  /\ [](\A t \in Tokens :
          Locked(t) => /\ InSection(voiceLock[t].holder)
                       /\ speechToken[voiceLock[t].holder] = t)
  /\ \A p \in Speakers : (speechAt[p] = "queued") ~> InSection(p)

\* A call that waited is inside the section after the holder before it timed out
C17_Witness ==
  \E p, q \in Speakers :
    /\ speechError[p] = "timeout"
    /\ speechToken[p] = speechToken[q]
    /\ waited[q]
    /\ InSection(q)

\* C18: while the events are the cumulative init values of one code part, the
\* deltas written concatenate to the opening fence and the latest code; once
\* its finish value has come, once or repeatedly, to the opening fence, the
\* final code and one closing fence
C18_CodeFencedOnce ==
  /\ script.code = "init" => transStream.written = codeHead \o script.sent
  /\ script.code = "closed" =>
        transStream.written = codeHead \o script.sent \o codeFooter

\* A code part that grew from one init value to the next and was finished
C18_Witness ==
  /\ script.code = "closed"
  /\ script.grown
  /\ Len(script.sent) = MaxLen

\* C19: for the events text Hel (init), text Hello (finish), finish, the
\* output carries after the first event the delta Hel, after the second the
\* deltas Hel and lo, after the third a stop chunk without content and the
\* [DONE] sentinel, and no other chunk than the role chunk before them
C19_HelloInTwoDeltas ==
  /\ (script.hello = 1 /\ upstream = "open") =>
        /\ transStream.written = Hel
        /\ transStream.chunks = 2
        /\ transStream.lastFinish = "null"
        /\ transStream.done = 0
  /\ (script.hello = 2 /\ upstream = "open") =>
        /\ transStream.written = Hello
        /\ transStream.chunks = 3
        /\ transStream.lastFinish = "null"
        /\ transStream.done = 0
  /\ script.hello = 3 =>
        /\ transStream.written = Hello
        /\ transStream.chunks = 4
        /\ transStream.lastFinish = "stop"
        /\ transStream.done = 1
        /\ transStream.lateWrites = 0

\* The three events have been handled
C19_Witness ==
  /\ script.hello = 3
  /\ transStream.state = "ended"

\* body.voice is one of the six names
Standard(v) == \E i \in 1..6 : StandardVoices[i] = v

\* C20: after a request, with REPLACE_AUDIO_MODEL unset each of the six names
\* has become its own default persona; with a list of three names the first
\* three have become the names of the list and onyx, nova and shimmer their
\* own default personas; any other voice name is unchanged
C20_VoiceMapping ==
  bodyVoice # NoVoice =>
    /\ (replaceEnv = Unset /\ Standard(bodyVoice)) =>
          voice = tem_replace_audio_model[voiceToModelIndex(bodyVoice) + 1]
    /\ (/\ replaceEnv # Unset
        /\ Len(replaceEnv) = 3
        /\ \A i \in 1..3 : replaceEnv[i] # ""
        /\ Standard(bodyVoice)) =>
          voice = IF voiceToModelIndex(bodyVoice) < 3
                  THEN replaceEnv[voiceToModelIndex(bodyVoice) + 1]
                  ELSE tem_replace_audio_model[voiceToModelIndex(bodyVoice) + 1]
    /\ ~Standard(bodyVoice) => voice = bodyVoice

\* C21: a request for the model tts-1-hd that names one of the six voices is
\* synthesized with that voice's tts-1-hd persona
C21_HdPersona ==
  (bodyModel = "tts-1-hd" /\ replaceEnv = Unset /\ Standard(bodyVoice)) =>
    persona = HdPersonas[voiceToModelIndex(bodyVoice) + 1]

\* C22: a token check that has ended has returned a boolean and has not
\* thrown, whichever step the upstream rejected the token at
C22_LiveIsBoolean ==
  \A p \in Procs :
    (op[p] = "live" /\ pc[p] = "done") =>
      (~thrown[p] /\ ret[p].kind \in {"true", "false"})

\* C23: the object of the buffered mode has, before and after every event
\* and when it is returned, object "chat.completion", one choice with role
\* assistant and finish_reason "stop", and the usage block 1, 1, 2
C23_BufferedShape ==
  /\ data.object = "chat.completion"
  /\ Len(data.choices) = 1
  /\ data.choices[1].role = "assistant"
  /\ data.choices[1].finish_reason = "stop"
  /\ data.usage = [prompt_tokens |-> 1, completion_tokens |-> 1, total_tokens |-> 2]

\* An answer returned after MaxEvents events, some of which carried text
C23_Witness ==
  /\ promise = "resolved"
  /\ data.content # <<>>
  /\ nEvents = MaxEvents

\* C24: at most one registration request is in flight for a credential, and
\* one is in flight exactly while the credential has a queue, whether the
\* registration follows a miss, the expiry of the cached identity or its
\* eviction by the token check
C24_OneRegistrationInFlight ==
  \A t \in Tokens :
    /\ registering[t] <= 1
    /\ registering[t] = 1 <=> deviceInfoRequestQueueMap[t] # Absent

\* Two calls await the one registration issued after the cached identity
\* expired
C24_Witness ==
  \E t \in Tokens, p, q \in Procs :
    /\ Expired(deviceInfoMap[t], now)
    /\ registering[t] = 1
    /\ tok[p] = t /\ pc[p] = "issuer2"
    /\ tok[q] = t /\ pc[q] = "queued2"

\* acquireDeviceInfo of p has returned a value
Acquired(pcs, ops, p) ==
  \/ pcs[p] = "liveRequest"
  \/ pcs[p] = "done" /\ ops[p] = "acquire"

\* One step as C25 allows it, for the call of p
C25_Step(p) ==
  LET t == tok'[p]
      cached == deviceInfoMap[t]
      starts == pc[p] = "idle" /\ pc'[p] # "idle"
      resumes == pc[p] \in {"issuer1", "issuer2", "queued1", "queued2"}
                   /\ Acquired(pc', op', p)
  IN
  /\ (starts /\ cached.kind = "id" /\ now <= cached.refreshTime) =>
        /\ Acquired(pc', op', p)
        /\ ret'[p] = cached
        /\ regIssued' = regIssued
        /\ registering' = registering
  /\ (starts /\ cached.kind = "id" /\ now > cached.refreshTime) =>
        /\ pc'[p] \in {"issuer2", "queued2"}
        /\ registering'[t] = 1
  /\ (resumes /\ ret'[p].kind = "id") =>
        /\ ret'[p].refreshTime = now + DEVICE_INFO_EXPIRES
        /\ deviceInfoMap'[t] = ret'[p]
  /\ (~Acquired(pc, op, p) /\ Acquired(pc', op', p) /\ ret'[p].kind = "id") =>
        now' <= ret'[p].refreshTime

\* C25: a call that finds a cached identity with now <= refreshTime returns it
\* and issues no registration; one that finds now > refreshTime awaits a
\* registration, whose identity has refreshTime = its issue time + 10800 and
\* replaces the cached one; no identity is returned with now > refreshTime
C25_CachedUntilExpiry == [][\A p \in Procs : C25_Step(p)]_vars

\* A call has found the cached identity expired and issued a registration,
\* which is in flight
C25_Witness ==
  \E p \in Procs :
    /\ pc[p] = "issuer2"
    /\ op[p] = "acquire"
    /\ deviceInfoMap[tok[p]].kind = "id"
    /\ now > deviceInfoMap[tok[p]].refreshTime
    /\ \A q \in Procs : q # p => pc[q] = "idle"

\* C26: once the upstream has rejected a request of the call, the identity
\* that request was made with is no longer the cached one, and no later
\* attempt of the call gets it
C26_RejectedIdentityEvicted ==
  rejected.reg # 0 =>
    /\ cachedReg # rejected.reg
    /\ attempts > rejected.attempt => usedReg # rejected.reg

BufferedFns == {"createCompletion", "createRepeatCompletion", "createTranscriptions"}

\* C27: in the buffered functions at most one session is open, and none is
\* open outside the wait for the stream of the current attempt: not while
\* the call waits to retry, starts its next attempt, or has returned or thrown
C27_SessionClosedBetweenAttempts ==
  fn \in BufferedFns =>
    /\ sessionsOpen <= 1
    /\ phase # "receive" => sessionsOpen = 0

\* A second attempt holds its session after the first one's stream failed
C27_Witness ==
  /\ fn \in BufferedFns
  /\ attempts = 2
  /\ "stream" \in caught
  /\ phase = "receive"
  /\ sessionsOpen = 1

\* C28: when a createCompletionStream call has nothing left to do, its
\* upstream stream closed, its output ended and its deletion task settled, the
\* session its successful attempt opened has been closed
C28_StreamSessionClosed ==
  (/\ fn = "createCompletionStream"
   /\ phase = "closed"
   /\ removal.stage \notin {"acquire", "delete"}) => sessionsOpen = 0

\* The functions that await receiveStream
ReceiveFns == {"createCompletion", "createRepeatCompletion"}

\* One step of a call that awaits receiveStream, when the events and failures
\* in causes are the ones that reject
C29_Step(causes) ==
  fn' \in ReceiveFns =>
    \* the failure rejects the result of the attempt, which is no success
    /\ lastCause' \in causes =>
          /\ settled'[attempts'] = "rejected"
          /\ succeededAt' # attempts'
    \* a rejection stays one, whatever the stream emits later
    /\ \A k \in Attempts : settled[k] = "rejected" => settled'[k] = "rejected"
    \* the rejection is answered by a retry while the budget lasts
    /\ (phase = "receive" /\ settled'[attempts] = "rejected") =>
          phase' = IF retryCount < MAX_RETRY_COUNT THEN "delay" ELSE "failed"
    /\ (phase = "delay" /\ phase' # "delay") =>
          /\ attempts' = attempts + 1
          /\ retryCount' = retryCount + 1
          /\ retryCount' <= MAX_RETRY_COUNT

\* C29 as stated: malformed data, any status code other than 0 and a stream
\* error reject the pending result; no later close makes it a success; the
\* call is retried within the budget
C29_AnyStatusRejects == [][C29_Step(Causes \cup {"status3"})]_vars

\* C29, amended: the same, for a status code other than 0 on an event whose
\* type is not 3
C29_RejectionRetried == [][C29_Step(Causes)]_vars

\* The second attempt is under way; the first was rejected and its stream
\* has closed since
C29_Witness ==
  /\ fn = "createCompletion"
  /\ attempts = 2
  /\ phase = "receive"
  /\ settled[1] = "rejected"
  /\ 1 \notin streamsOpen
  /\ "stream" \in caught

\* C30: from the moment createCompletion has started the deletion, whether
\* the deletion is pending, has succeeded or has failed, the call has
\* returned the completion of its last attempt and makes no further attempt
C30_DeletionNotAwaited ==
  (fn = "createCompletion" /\ removal.stage # "none") =>
    /\ phase = "returned"
    /\ outcome = [result |-> "ok", error |-> "none", attempt |-> attempts]
    /\ succeededAt = attempts

\* The deletion has failed after the call returned from a retry
C30_Witness ==
  /\ fn = "createCompletion"
  /\ removal.stage = "failed"
  /\ phase = "returned"
  /\ attempts = 2

\* An event that opens a part of another kind right after the answer Hel,
\* Hello (a text part that grew and finished) and has text of its own; text
\* is the text of the event
C31_Step ==
  (/\ script.hello = 2
   /\ nEvents' = nEvents + 1
   /\ prev'.status = "loading"
   /\ prev'.values[1].type # "text"
   /\ PartsText(Locals, prev'.values).str # <<>>)
  => LET text == PartsText(Locals, prev'.values).str
     IN /\ 0 <= Len(content') - textOffset'
        /\ Len(content') - textOffset' <= Len(text)

\* C31: after an event the transcoder has processed, content.length -
\* textOffset lies between 0 and the length of the text of that event, also
\* when a decoration part follows a text part in the same stream
C31_OffsetIndexesBoundary == [][C31_Step]_vars

\* The part of text an event may add to acc: from the length of acc, or
\* from the first marker when that comes earlier, up to the first marker, or
\* to the end of text when it has no marker
C32_Accepted(acc, text) ==
  LET i == IndexOf(text, Marker)
  IN IF i # -1
     THEN SubSeq(text, Min(Len(acc), i) + 1, i)
     ELSE SubSeq(text, Len(acc) + 1, Len(text))

\* C32: the chunk receiveStream and createTransStream accept from a
\* message_result event is text[min(|content|, i), i) when the first marker
\* of text is at i and text[|content|, |text|) when text has none; it holds no
\* marker and no character at or after the first marker
C32_ChunkStopsAtMarker ==
  last.kind = "message" =>
    LET i == IndexOf(last.text, Marker)
    IN /\ last.chunk = C32_Accepted(last.before, last.text)
       /\ content = last.before \o last.chunk
       /\ data.content = last.before \o last.chunk
       /\ \A k \in 1..Len(last.chunk) : last.chunk[k] # Marker
       /\ i # -1 => Len(content) <= Max(Len(last.before), i)

\* An event whose text has a marker has added the characters before it
C32_Witness ==
  /\ last.kind = "message"
  /\ IndexOf(last.text, Marker) = 1
  /\ last.before = <<>>
  /\ last.chunk = <<"a">>
  /\ content = <<"a">>
  /\ data.content = <<"a">>

C34_RetryBuildsSamePayload ==
  /\ messages = given.messages
  /\ \A k \in 1..Len(payloads) :
        /\ payloads[k] = payloads[1]
        /\ Cardinality({i \in 1..Len(payloads[k].msgContent) :
                          payloads[k].msgContent[i].role = "system"}) <= 1

\* The texts of a list in order, each with the role of its message
C39_Texts(ms) ==
  LET n == Len(ms)
      count(k) == Len(SelectSeq(ms[k].content.parts, LAMBDA v : v.type = "text"))
      RECURSIVE before(_)
      before(k) == IF k = 1 THEN 0 ELSE before(k - 1) + count(k - 1)
      total == IF n = 0 THEN 0 ELSE before(n) + count(n)
      owner(i) == CHOOSE k \in 1..n : before(k) < i /\ i <= before(k) + count(k)
  IN [i \in 1..total |->
        [role |-> ms[owner(i)].role,
         text |-> SelectSeq(ms[owner(i)].content.parts,
                            LAMBDA v : v.type = "text")[i - before(owner(i))].text]]

\* What the payload an attempt built from the list ms and the reference ref
\* must be
C39_Prepared(ms, ref, payload) ==
  LET lines == payload.msgContent
      texts == C39_Texts(ms)
      through == \A i \in 1..Len(lines) : lines[i].role = ""
  IN /\ through <=> (ref # "" \/ Len(ms) < 2)
     /\ through =>
          /\ Len(lines) = Len(texts)
          /\ \A i \in 1..Len(lines) : lines[i].text = texts[i].text
     /\ ~through =>
          LET latest == Len(C39_Texts(<<ms[Len(ms)]>>))
              injected == IF hasFileOrImage(ms[Len(ms)]) THEN 1 ELSE 0
              at == Len(texts) - latest + 1
              orig(i) == IF i < at THEN i ELSE i - injected
          IN /\ Len(lines) = Len(texts) + injected + 1
             /\ \A i \in 1..(Len(lines) - 1) :
                   IF injected = 1 /\ i = at
                   THEN lines[i] = [role |-> "system", text |-> "attend"]
                   ELSE /\ lines[i].role = texts[orig(i)].role
                        /\ lines[i].text \in {texts[orig(i)].text, ""}
             /\ lines[Len(lines)].role = "assistant"

\* C39: at every attempt messagesPrepare passes the bodies through unmarked
\* iff a reference is supplied or the list has fewer than two messages;
\* otherwise it writes every body with its role in the order of the list and,
\* exactly when the latest message has a file or image_url part, one system
\* instruction immediately before the latest message
C39_PrepareModes ==
  [][Len(payloads') = Len(payloads) + 1 =>
       C39_Prepared(messages, given.refConvId, payloads'[Len(payloads')])]_vars

\* A first attempt has injected the instruction between the two messages of
\* a list whose latest message has a file and a text
C39_Witness ==
  /\ Len(payloads) = 1
  /\ Len(given.messages) = 2
  /\ given.refConvId = ""
  /\ hasFileOrImage(given.messages[2])
  /\ Len(payloads[1].msgContent) = 4
  /\ payloads[1].msgContent[2].role = "system"
  /\ payloads[1].msgContent[3].role = given.messages[2].role

\* C35: every DELETE request issued names a conversation id the upstream
\* assigned in this turn, never the empty id of a stream that closed without
\* a message_result event
C35_DeleteOnlyAssignedId ==
  /\ NoConv \notin deletes
  /\ deletes \subseteq assigned

\* Call p has called chat.removeConversation for its synthesis conversation
C36_RemovalRequested(p) ==
  \/ speechAt[p] \in {"remove", "download", "done"}
  \/ speechAt[p] = "failed" /\ speechError[p] \in {"remove", "empty", "download"}

\* C36: a createSpeech call that has left by success, persona-switch
\* failure, poll timeout, empty result or download failure has requested the
\* deletion of the conversation its repeat-back turn created
C36_ConversationDeletedOnExit ==
  \A p \in Speakers :
    (\/ speechAt[p] = "done"
     \/ /\ speechAt[p] = "failed"
        /\ speechError[p] \in {"switch", "timeout", "empty", "download"}) =>
      C36_RemovalRequested(p)

\* C38: a poll is outstanding only in an iteration that began within 30
\* seconds of the start of the loop; the timeout error is raised at the first
\* iteration that begins later than that; and every call that polls
\* eventually leaves the loop, with the segment URLs or with an error
C38_PollLoopTerminates ==
  /\ [](\A p \in Speakers :
          /\ speechAt[p] = "poll" => elapsed[p] <= POLL_TIMEOUT
          /\ speechError[p] = "timeout" =>
                /\ speechAt[p] = "failed"
                /\ elapsed[p] > POLL_TIMEOUT
                /\ elapsed[p] - PollMs <= POLL_TIMEOUT)
  /\ \A p \in Speakers :
       (speechAt[p] = "poll") ~> (speechAt[p] \in {"remove", "failed"})

\* A call has left the loop by the timeout while the other left it with its
\* segment URLs
C38_Witness ==
  \E p, q \in Speakers :
    /\ speechError[p] = "timeout"
    /\ elapsed[p] > POLL_TIMEOUT
    /\ speechAt[q] \in {"remove", "download", "done"}
    /\ audioUrls[q] > 0

\* C37: the audio createSpeech returns is the bodies of the segments in the
\* order of the URLs, whatever the order the downloads settled in; with no
\* segment, or with a download that did not answer with status 200, it
\* returns no audio, and has failed once nothing is pending
C37_AudioInUrlOrder ==
  /\ speechResult = "audio" =>
        /\ segments > 0
        /\ audioBuffer = [i \in 1..segments |-> i]
        /\ \A i \in 1..segments : downloadResults[i].status = "200"
  /\ segments = 0 => speechResult = "empty"
  /\ speechResult # "audio" => audioBuffer = <<>>
  /\ (\E i \in 1..Len(downloadResults) :
        downloadResults[i].status \in {"206", "rejected"}) =>
        /\ speechResult # "audio"
        /\ (\A j \in 1..Len(downloadResults) : downloadResults[j] # Pending) =>
              speechResult = "download"

\* Three segments whose downloads settled in the order 3, 1, 2 are returned
\* as one buffer
C37_Witness ==
  /\ speechResult = "audio"
  /\ segments = 3
  /\ arrived = <<3, 1, 2>>

\* What the calls share for credential t: the cached identity, the queue of
\* the registration in flight and the voice lock
C40_Shared(t) == <<deviceInfoMap[t], deviceInfoRequestQueueMap[t], voiceLock[t]>>

\* A step that changes what is shared for t is a step of calls made for t,
\* and of no call made for another credential
C40_Step ==
  \A t \in Tokens :
    C40_Shared(t)' # C40_Shared(t) =>
      /\ \/ \E p \in Procs : pc'[p] # pc[p] /\ tok'[p] = t
         \/ \E p \in Speakers : speechAt'[p] # speechAt[p] /\ speechToken'[p] = t
      /\ \A p \in Procs : pc'[p] # pc[p] => tok'[p] = t
      /\ \A p \in Speakers : speechAt'[p] # speechAt[p] => speechToken'[p] = t
      /\ \A u \in Tokens \ {t} : C40_Shared(u)' = C40_Shared(u)

\* C40: an operation performed for one credential (acquire, the settling of
\* a registration, the eviction of the token check, the acquiring and the
\* release of the voice lock) leaves the cached identity, the registration
\* queue and the voice lock of every other credential unchanged
C40_OtherCredentialsUntouched == [][C40_Step]_vars

\* The token check of one credential has evicted its identity while the
\* identity of the other stays cached
C40_Witness ==
  \E p \in Procs :
    /\ op[p] = "live"
    /\ pc[p] = "done"
    /\ ret[p].kind = "false"
    /\ deviceInfoMap[tok[p]] = NoValue
    /\ \E u \in Tokens \ {tok[p]} : deviceInfoMap[u].kind = "id"

====
